---- MODULE Spec2Model ----
(***************************************************************************)
(* The node reconciliation pipeline of the Xandeum pNodes analytics        *)
(* platform: endpoint fallback, the gossip-sync cycle with its database    *)
(* transaction, the stats updater, and the two in-memory caches in front   *)
(* of the store.                                                           *)
(*                                                                         *)
(* Representation.  A JavaScript string that may hold a port is a sequence *)
(* of tokens: every token is either the colon ":" or a maximal run of      *)
(* characters without a colon ("10.0.0.1:9001" is <<"10.0.0.1", ":",       *)
(* "9001">>, the empty string is <<>>).  Storage is counted in tenths of a *)
(* gigabyte, so that the decimal literal "5.5" is the integer 55.          *)
(***************************************************************************)
EXTENDS Integers, Sequences, FiniteSets, TLC

VARIABLES
    \* ---- the relational store
    nodes,          \* Node table: canonical ip -> row
    snapshots,      \* NodeSnapshot table, in insertion order
    networkStats,   \* NetworkStats table, in insertion order
    errorLog,       \* ErrorLog table, in insertion order
    geoCache,       \* GeoCache table: ip -> [country, lat, lon]
    \* ---- process memory
    nodesCache,     \* lib/nodes-cache.ts: the single slot
    statsCache,     \* lib/network-stats-cache.ts: range label -> slot
    \* ---- endpoint fallback (one call in flight at a time)
    fbFn, fbOrder, fbIdx, fbErrors, fbCalls, fbPc, fbResult,
    \* ---- the gossip-sync request
    gPc, gRaw, gCredits, gIdx, gProcessed, gErrors, gTx, gResp, gHist,
    \* ---- cache refresh tasks started by a cycle
    rfNodes, rfStats, rfOwner,
    \* ---- a reader of the node list (GET /api/nodes)
    rdPc, rdData, rdHist,
    \* ---- the stats-updater request
    sPc, sVariant, sCands, sTasks, sSnaps, sCount, sErrors, sResp, sHist,
    \* ---- geo resolutions started outside the gossip-sync loop
    geoRes,
    \* ---- a function applied on its own: its name, operands and result
    calc,
    \* ---- budgets of the bounded exploration
    cycles, faults

fbVars == <<fbFn, fbOrder, fbIdx, fbErrors, fbCalls, fbPc, fbResult>>
dbVars == <<nodes, snapshots, networkStats, errorLog, geoCache>>
cacheVars == <<nodesCache, statsCache>>
gVars == <<gPc, gRaw, gCredits, gIdx, gProcessed, gErrors, gTx, gResp, gHist>>
rfVars == <<rfNodes, rfStats, rfOwner>>
rdVars == <<rdPc, rdData, rdHist>>
sVars == <<sPc, sVariant, sCands, sTasks, sSnaps, sCount, sErrors, sResp, sHist>>
auxVars == <<geoRes, calc>>
vars == <<nodes, snapshots, networkStats, errorLog, geoCache, nodesCache,
          statsCache, fbFn, fbOrder, fbIdx, fbErrors, fbCalls, fbPc, fbResult,
          gPc, gRaw, gCredits, gIdx, gProcessed, gErrors, gTx, gResp, gHist,
          rfNodes, rfStats, rfOwner, rdPc, rdData, rdHist,
          sPc, sVariant, sCands, sTasks, sSnaps, sCount, sErrors, sResp, sHist,
          geoRes, calc, cycles, faults>>

(***************************************************************************)
(* Bounds of the exploration.                                              *)
(***************************************************************************)
\* gossip-sync requests per behaviour
MaxGossipCycles == 2
\* stats-updater requests per behaviour
MaxStatsCycles == 1
\* node-list reads per behaviour
MaxReads == 2
\* node-list reads per behaviour when gossip-sync cycles run beside them
MaxReadsBeside == 1
\* injected failures (a throwing store call, a failing HTTP lookup) per behaviour
MaxFaults == 1
\* gossip-sync requests per behaviour when a stats updater runs beside them
MaxCyclesBeside == 1

(***************************************************************************)
(* Strings with ports.                                                     *)
(***************************************************************************)
NoString == <<>>

\* "a || b" on strings: the empty string is falsy
OrElse(a, b) == IF a # NoString THEN a ELSE b

\* ipWithPort.includes(":")
HasColon(a) == \E i \in 1..Len(a) : a[i] = ":"

\* the tokens that begin with "9001", and what they are once these four
\* characters are replaced by "6000"
Starts9001(t) == t \in {"9001", "90011"}
Swap9001(t) == IF t = "9001" THEN "6000" ELSE "60001"

\* ipWithPort.includes(":9001"): a substring match, the port may go on
HasPort9001(a) == \E i \in 1..(Len(a) - 1) : a[i] = ":" /\ Starts9001(a[i + 1])

First9001(a) ==
    CHOOSE i \in 1..(Len(a) - 1) :
        /\ a[i] = ":" /\ Starts9001(a[i + 1])
        /\ \A j \in 1..(i - 1) : ~(a[j] = ":" /\ Starts9001(a[j + 1]))

\* a faulty variant: the address comes back as the URL of the endpoint
fixPortAsUrl(a) == <<"http", ":">> \o a

\* replaces the first ":9001" by ":6000", or appends ":6000" when there is no port
fixPort(a) ==
    IF HasPort9001(a)
    THEN [a EXCEPT ![First9001(a) + 1] = Swap9001(@)]
    ELSE IF ~HasColon(a) THEN a \o <<":", "6000">> ELSE a

\* a faulty variant: the address is kept as it came, port and all
extractIpWhole(a) == a

\* ipWithPort.split(":")[0]: what precedes the first colon
extractIp(a) == IF a = NoString \/ a[1] = ":" THEN NoString ELSE <<a[1]>>

IP1 == <<"10.0.0.1">>
IP2 == <<"10.0.0.2">>
ZeroIp == <<"0.0.0.0">>

(***************************************************************************)
(* Gossip records and the responses of the remote endpoints.               *)
(***************************************************************************)
\* pod.storage is a decimal string, a number, or absent
StrStorage(whole, tenth) == [t |-> "string", whole |-> whole, tenth |-> tenth]
NumStorage(whole, tenth) == [t |-> "number", whole |-> whole, tenth |-> tenth]
NoStorage == [t |-> "undefined", whole |-> 0, tenth |-> 0]

Pod(address, ip, pubkey, storage, uptime) ==
    [isNull |-> FALSE, address |-> address, addr |-> NoString, ip |-> ip,
     pubkey |-> pubkey, node_pubkey |-> "", version |-> "0.8.0",
     storage |-> storage, uptime |-> uptime]

\* a null entry of the pods array
NullPod ==
    [isNull |-> TRUE, address |-> NoString, addr |-> NoString, ip |-> NoString,
     pubkey |-> "", node_pubkey |-> "", version |-> "",
     storage |-> NoStorage, uptime |-> 0]

PodA == Pod(NoString, IP1, "abc", StrStorage(5, 5), 120)
PodAPort == Pod(<<"10.0.0.1", ":", "9001">>, NoString, "abc", NumStorage(7, 0), 300)
PodB == Pod(<<"10.0.0.2", ":", "6000">>, IP2, "def", NumStorage(2, 0), 0)
PodNoIp == Pod(NoString, NoString, "ghi", NoStorage, 5)
PodZero == Pod(<<"0.0.0.0", ":", "6000">>, NoString, "", NoStorage, 0)

\* the pod lists the remote endpoints may answer with
GossipPayloads ==
    { <<PodA, PodNoIp>>,
      <<PodB, PodZero>>,
      <<PodA, PodB>>,
      <<PodAPort, PodA>>,
      <<PodB, NullPod>>,
      <<>> }

\* what rpcCall yields: it throws, or returns data.result
RpcOutcomes ==
    {[kind |-> "throws", shape |-> "none", payload |-> <<>>]}
    \cup {[kind |-> "result", shape |-> "other", payload |-> <<>>]}
    \cup {[kind |-> "result", shape |-> s, payload |-> p] :
            s \in {"pods", "list", "array"}, p \in GossipPayloads}

\* result.pods, result.list or the result itself is an array
IsPodList(out) == out.kind = "result" /\ out.shape \in {"pods", "list", "array"}

(***************************************************************************)
(* Endpoint fallback: fetchGossipDataWithFallback (gossip-sync) and the    *)
(* loop of getPodsWithStats (the client used by the assembler).            *)
(***************************************************************************)
GOSSIP_RPC_NODES ==
    << "http://216.234.134.5:6000/rpc", "http://173.212.207.32:6000/rpc",
       "http://161.97.185.116:6000/rpc", "http://152.53.236.91:6000/rpc" >>

CLIENT_RPC_NODES ==
    << "http://216.234.134.5:6000/rpc", "http://161.97.185.116:6000/rpc" >>

\* [...RPC_NODES].sort(() => 0.5 - Math.random()): any order of the same entries
Shuffles(s) ==
    { [i \in 1..Len(s) |-> s[f[i]]] :
        f \in { g \in [1..Len(s) -> 1..Len(s)] :
                  \A i, j \in 1..Len(s) : i # j => g[i] # g[j] } }

\* the order in which a fallback function walks its endpoints
FallbackOrders(fn) ==
    IF fn = "gossip-sync" THEN {GOSSIP_RPC_NODES}
    ELSE Shuffles(CLIENT_RPC_NODES)

FbIdle ==
    /\ fbFn = "none" /\ fbOrder = <<>> /\ fbIdx = 0 /\ fbErrors = <<>>
    /\ fbCalls = <<>> /\ fbPc = "idle" /\ fbResult = <<>>

FbStart(fn) ==
    /\ fbPc = "idle"
    /\ fbFn' = fn
    /\ fbOrder' \in FallbackOrders(fn)
    /\ fbIdx' = 1
    /\ fbErrors' = <<>>
    /\ fbCalls' = <<>>
    /\ fbResult' = <<>>
    /\ fbPc' = "loop"
    /\ UNCHANGED auxVars

\* the entry the loop adds to its errors array for a call that gave no pod list
FbErrorsAfter(fn, errs, node, out) ==
    IF out.kind = "throws"
    THEN Append(errs, [node |-> node, msg |-> "call failed"])
    ELSE IF fn = "gossip-sync"
         THEN Append(errs, [node |-> node, msg |-> "Invalid response structure"])
         ELSE errs

\* how a fallback function ends once every endpoint has been tried in vain
FbExhausted(fn) == IF fn = "gossip-sync" THEN "threw" ELSE "returned"

\* one iteration of the loop: one rpcCall and the check of its result
FbCall ==
    /\ fbPc = "loop"
    /\ \E out \in RpcOutcomes :
        LET node == fbOrder[fbIdx] IN
        /\ fbCalls' = Append(fbCalls, [node |-> node, out |-> out])
        /\ IF IsPodList(out)
           THEN /\ fbResult' = out.payload
                /\ fbPc' = "returned"
                /\ UNCHANGED <<fbErrors, fbIdx>>
           ELSE /\ fbErrors' = FbErrorsAfter(fbFn, fbErrors, node, out)
                /\ fbIdx' = fbIdx + 1
                /\ fbResult' = <<>>
                /\ fbPc' = IF fbIdx = Len(fbOrder) THEN FbExhausted(fbFn) ELSE "loop"
    /\ UNCHANGED <<fbFn, fbOrder, auxVars>>

\* the caller has taken the outcome; the locals of the call are gone
FbReset ==
    /\ fbFn' = "none" /\ fbOrder' = <<>> /\ fbIdx' = 0 /\ fbErrors' = <<>>
    /\ fbCalls' = <<>> /\ fbPc' = "idle" /\ fbResult' = <<>>
    /\ UNCHANGED auxVars

(***************************************************************************)
(* Enrichment: credits and geo location.                                   *)
(***************************************************************************)
EmptyMap == [k \in {} |-> 0]

\* what the credits API holds: pod_id -> credits
CreditsTruth == [k \in {"abc", "def"} |-> IF k = "abc" THEN 100 ELSE 7]

\* getCredits: the mapping, or {} when the fetch or its parsing fails
getCredits(ok) == IF ok THEN CreditsTruth ELSE EmptyMap

\* a faulty variant: a pod_id without an entry counts one credit
CreditsOfAtLeastOne(map, pubkey) == IF pubkey \in DOMAIN map THEN map[pubkey] ELSE 1

\* creditsMap[pubkey] || 0
CreditsOf(map, pubkey) == IF pubkey \in DOMAIN map THEN map[pubkey] ELSE 0

\* what ip-api.com answers for an address when it answers with status success
GeoTruth(ip) ==
    IF ip = IP1 THEN [country |-> "US", lat |-> 1, lon |-> 2]
    ELSE [country |-> "DE", lat |-> 3, lon |-> 4]

UnknownGeo == [country |-> "Unknown", lat |-> 0, lon |-> 0]

\* the ways one resolveGeoLocation(ip) can go, given the GeoCache table
GeoOutcomes(ip, cache) ==
    IF ip \in DOMAIN cache
    THEN {"cached", "findThrows"}
    ELSE {"success", "lookupFails", "createThrows", "findThrows"}

\* the outcomes that are a failure of the store or of the geo-IP service
GeoFault(o) == o \in {"lookupFails", "createThrows", "findThrows"}

\* resolveGeoLocation: [threw, geo, cache] for one way of going
resolveGeoLocation(ip, cache, o) ==
    CASE o = "findThrows" -> [threw |-> TRUE, geo |-> UnknownGeo, cache |-> cache]
      [] o = "cached" -> [threw |-> FALSE, geo |-> cache[ip], cache |-> cache]
      [] o = "success" ->
            [threw |-> FALSE, geo |-> GeoTruth(ip),
             cache |-> cache @@ (ip :> GeoTruth(ip))]
      [] OTHER -> [threw |-> FALSE, geo |-> UnknownGeo, cache |-> cache]

(***************************************************************************)
(* The store.                                                              *)
(***************************************************************************)
\* a faulty variant: the entry is written twice
logErrorTwice(log, source, phase, nodeId, ok) ==
    IF ok THEN log \o << [source |-> source, phase |-> phase, nodeId |-> nodeId],
                         [source |-> source, phase |-> phase, nodeId |-> nodeId] >>
    ELSE log

\* a faulty variant: the table is rewritten with the new rows
createManyReplacing(tbl, rows) == rows

\* createMany({ data: rows }): the rows are added after those of the table
createMany(tbl, rows) == tbl \o rows

\* logErrorToDb: db.errorLog.create inside try/catch; a failed write is swallowed
logErrorToDb(log, source, phase, nodeId, ok) ==
    IF ok THEN Append(log, [source |-> source, phase |-> phase, nodeId |-> nodeId])
    ELSE log

RECURSIVE SumOver(_, _)
\* items.reduce((sum, x) => sum + x[field], 0)
SumOver(items, field) ==
    IF items = <<>> THEN 0
    ELSE items[1][field] + SumOver(Tail(items), field)

\* db.node.count({ where: { status } })
CountStatus(tbl, status) == Cardinality({ip \in DOMAIN tbl : tbl[ip].status = status})

\* a faulty variant: the transaction starts without marking anything inactive
MarkNoneInactive(tbl) == tbl

\* tx.node.updateMany({ data: { status: 'inactive' } })
MarkAllInactive(tbl) == [ip \in DOMAIN tbl |-> [tbl[ip] EXCEPT !.status = "inactive"]]

\* the create branch of the gossip-sync upsert
GossipCreateRow(n) ==
    [pubkey |-> n.pubkey, version |-> n.version, country |-> n.geo.country,
     lat |-> n.geo.lat, lon |-> n.geo.lon, credits |-> n.credits,
     storage |-> n.storage, uptime |-> n.uptime, status |-> n.status,
     cpuPercent |-> 0, ramUsage |-> 0, ramUsed |-> 0, ramTotal |-> 0,
     activeStreams |-> 0, packetsReceived |-> 0, packetsSent |-> 0,
     isPublic |-> TRUE]

\* a faulty variant: the update branch leaves the status as it finds it
GossipUpdateKeepStatus(row, n) ==
    [row EXCEPT !.pubkey = n.pubkey, !.version = n.version,
                !.country = n.geo.country, !.lat = n.geo.lat, !.lon = n.geo.lon,
                !.credits = n.credits, !.storage = n.storage, !.uptime = n.uptime]

\* a faulty variant: the update branch writes the create branch's zeros over
\* the resource fields
GossipUpdateResetStats(row, n) ==
    [row EXCEPT !.pubkey = n.pubkey, !.version = n.version,
                !.country = n.geo.country, !.lat = n.geo.lat, !.lon = n.geo.lon,
                !.credits = n.credits, !.storage = n.storage,
                !.uptime = n.uptime, !.status = n.status,
                !.cpuPercent = 0, !.ramUsage = 0, !.ramUsed = 0, !.ramTotal = 0,
                !.activeStreams = 0, !.packetsReceived = 0, !.packetsSent = 0]

\* the update branch of the gossip-sync upsert
GossipUpdateRow(row, n) ==
    [row EXCEPT !.pubkey = n.pubkey, !.version = n.version,
                !.country = n.geo.country, !.lat = n.geo.lat, !.lon = n.geo.lon,
                !.credits = n.credits, !.storage = n.storage,
                !.uptime = n.uptime, !.status = n.status]

\* tx.node.upsert({ where: { ip: node.ip }, update, create })
GossipUpsert(tbl, n) ==
    IF n.ip \in DOMAIN tbl
    THEN [tbl EXCEPT ![n.ip] = GossipUpdateRow(tbl[n.ip], n)]
    ELSE tbl @@ (n.ip :> GossipCreateRow(n))

\* the snapshot gossip-sync pushes after a node's upsert
GossipSnapshot(n) ==
    [nodeIp |-> n.ip, credits |-> n.credits, storage |-> n.storage,
     uptime |-> n.uptime, status |-> n.status,
     cpuPercent |-> 0, ramUsage |-> 0, ramUsed |-> 0, ramTotal |-> 0,
     activeStreams |-> 0, packetsReceived |-> 0, packetsSent |-> 0]

\* where the snapshot is pushed relative to the upsert: after it, inside the try
SnapsAfterUpsert(snaps, n, upsertOk) ==
    IF upsertOk THEN Append(snaps, GossipSnapshot(n)) ELSE snaps

\* the NetworkStats row of a gossip-sync transaction
GossipRollup(processed, txNodes) ==
    [activeNodes |-> Cardinality({i \in 1..Len(processed) : processed[i].status = "active"}),
     inactiveNodes |-> CountStatus(txNodes, "inactive"),
     totalStorage |-> SumOver(processed, "storage"),
     totalCredits |-> SumOver(processed, "credits")]

(***************************************************************************)
(* Gossip-sync preprocessing of one record.                                *)
(***************************************************************************)
\* pod.address || pod.addr || (pod.ip ? pod.ip : "")
PodAddress(pod) == OrElse(OrElse(pod.address, pod.addr), pod.ip)

\* extractIp(address || pod.ip || "")
PodIp(pod) == extractIp(OrElse(OrElse(PodAddress(pod), pod.ip), NoString))

\* the record is kept unless !ip || ip === "0.0.0.0"
ValidIp(ip) == ip # NoString /\ ip # ZeroIp

\* typeof pod.storage === 'string' ? parseFloat(pod.storage) : (pod.storage || 0)
ParseStorage(st) == IF st.t = "undefined" THEN 0 ELSE st.whole * 10 + st.tenth

\* pod.pubkey || pod.node_pubkey || null   ("" stands for null)
PodPubkey(pod) == IF pod.pubkey # "" THEN pod.pubkey ELSE pod.node_pubkey

ProcessedNode(pod, geo, creditsMap) ==
    [ip |-> PodIp(pod), pubkey |-> PodPubkey(pod), version |-> pod.version,
     credits |-> CreditsOf(creditsMap, PodPubkey(pod)),
     storage |-> ParseStorage(pod.storage), uptime |-> pod.uptime,
     status |-> "active", geo |-> geo]

\* pod.ip || pod.address || 'unknown', the node named in a preprocessing error
PodNodeId(pod) == OrElse(OrElse(pod.ip, pod.address), <<"unknown">>)

(***************************************************************************)
(* The read side: what the two caches hold.                                *)
(***************************************************************************)
Ranges == {"24h", "7d", "30d", "all"}

\* BigInt.toString()
ToStr(n) == <<"str", n>>

\* the orders db.node.findMany({ orderBy: { credits: 'desc' } }) may return:
\* rows of equal credits come in an order the store picks
CreditsDescOrders(tbl) ==
    { o \in [1..Cardinality(DOMAIN tbl) -> DOMAIN tbl] :
        /\ \A i, j \in DOMAIN o : i # j => o[i] # o[j]
        /\ \A i, j \in DOMAIN o : i < j => tbl[o[i]].credits >= tbl[o[j]].credits }

FormatNode(ip, row) ==
    [row EXCEPT !.packetsReceived = ToStr(@), !.packetsSent = ToStr(@)] @@ [ip |-> ip]

\* fetchNodesFromDb for one order of the rows
NodesListOf(tbl, o) ==
    LET rows == [i \in DOMAIN o |-> tbl[o[i]]] IN
    [nodes |-> [i \in DOMAIN o |-> FormatNode(o[i], tbl[o[i]])],
     stats |-> [totalStorage |-> SumOver(rows, "storage"),
                totalCredits |-> SumOver(rows, "credits"),
                activeNodes |-> CountStatus(tbl, "active"),
                totalNodes |-> Len(rows),
                avgUptime |-> IF Len(rows) > 0 THEN SumOver(rows, "uptime") \div Len(rows)
                              ELSE 0]]

\* every payload fetchNodesFromDb may compute from the Node table
fetchNodesFromDb(tbl) == {NodesListOf(tbl, o) : o \in CreditsDescOrders(tbl)}

\* the window of a range label: a label that is none of the four falls into
\* the else branch, "Default to 24h"
RangeWindow(range) == IF range \in Ranges THEN range ELSE "24h"

\* fetchNetworkStatsFromDb: the current counts and the series, which is a
\* function of the window and of the NodeSnapshot table (kept here as its size)
fetchNetworkStatsFromDb(range, tbl, snaps) ==
    [range |-> RangeWindow(range),
     totalNodes |-> Cardinality(DOMAIN tbl),
     activeNodes |-> CountStatus(tbl, "active"),
     inactiveNodes |-> CountStatus(tbl, "inactive"),
     series |-> Len(snaps)]

NoList == [nodes |-> <<>>, stats |-> [totalStorage |-> 0, totalCredits |-> 0,
           activeNodes |-> 0, totalNodes |-> 0, avgUptime |-> 0]]
NoStats == [range |-> "", totalNodes |-> 0, activeNodes |-> 0, inactiveNodes |-> 0,
            series |-> 0]

\* lib/nodes-cache.ts
EmptyNodesCache == [set |-> FALSE, data |-> NoList]
\* a faulty variant: the payload is dropped instead of stored
setCachedNodesLost(data) == [set |-> FALSE, data |-> NoList]
setCachedNodes(data) == [set |-> TRUE, data |-> data]
clearNodesCache == EmptyNodesCache

\* lib/network-stats-cache.ts (the standard range labels)
EmptyStatsSlot == [set |-> FALSE, data |-> NoStats]
clearStatsCache == [r \in Ranges |-> EmptyStatsSlot]
\* a faulty variant: one payload is stored under every range label
setCachedStatsEverywhere(cache, range, data) ==
    [r \in DOMAIN cache |-> [set |-> TRUE, data |-> data]]

\* cache[range] = { data, timestamp }: the label is any string
setCachedStats(cache, range, data) == (range :> [set |-> TRUE, data |-> data]) @@ cache

\* what a get returns: null for an empty slot, the stored payload otherwise
CacheMiss == [hit |-> FALSE, data |-> <<>>]
CacheHit(data) == [hit |-> TRUE, data |-> data]
getCachedNodes(cache) == IF ~cache.set THEN CacheMiss ELSE CacheHit(cache.data)
getCachedStats(cache, range) ==
    IF range \notin DOMAIN cache \/ ~cache[range].set THEN CacheMiss
    ELSE CacheHit(cache[range].data)

\* the slots of the two caches
CacheSlots == {"nodes"} \cup Ranges

(***************************************************************************)
(* Initial state: an empty store, empty caches, no request in progress.    *)
(***************************************************************************)
NoTx == [open |-> FALSE, nodes |-> EmptyMap, snaps |-> <<>>, i |-> 0]
NoResp == [status |-> 0, success |-> FALSE, phase |-> "none"]
NoRfNodes == [st |-> "idle", data |-> NoList]

\* what a cycle found when it started
DbView ==
    [nodes |-> nodes, nSnaps |-> Len(snapshots), nStats |-> Len(networkStats),
     nLog |-> Len(errorLog), nodesCache |-> nodesCache, statsCache |-> statsCache]

NoCycle ==
    [committed |-> FALSE, raw |-> <<>>, credits |-> EmptyMap, geoIn |-> EmptyMap,
     storeFault |-> FALSE, nProcessed |-> 0,
     nodes |-> EmptyMap, nSnaps |-> 0, nStats |-> 0]

NoCount == [active |-> 0, inactive |-> 0, storage |-> 0, credits |-> 0, updated |-> 0]
NoStatsHist ==
    [pre |-> EmptyMap, nSnaps |-> 0, threw |-> {}, refreshed |-> {}, ans |-> EmptyMap]

\* the requests whose geo resolutions may overlap
GeoCallers == {"c1", "c2"}
NoResolution ==
    [pc |-> "idle", todo |-> <<>>, ip |-> NoString,
     answer |-> [status |-> "none", country |-> "", lat |-> 0, lon |-> 0], ret |-> <<>>]
\* no function applied on its own
\* (last: for the cache functions, what was last set to each slot since its
\* cache was cleared)
NoCalc == [fn |-> <<>>, in |-> <<>>, out |-> <<>>,
           last |-> [x \in CacheSlots |-> CacheMiss]]

\* the requests modelled in full, none of them in progress
InitRequests ==
    /\ FbIdle
    /\ gPc = "IDLE" /\ gRaw = <<>> /\ gCredits = EmptyMap /\ gIdx = 0
    /\ gProcessed = <<>> /\ gErrors = <<>> /\ gTx = NoTx /\ gResp = NoResp
    /\ gHist = [pre |-> [nodes |-> EmptyMap, nSnaps |-> 0, nStats |-> 0, nLog |-> 0,
                         nodesCache |-> EmptyNodesCache, statsCache |-> clearStatsCache],
                prev |-> NoCycle, geoIn |-> EmptyMap, storeFault |-> FALSE,
                upserted |-> {}, logCalls |-> <<>>, tables |-> {nodes}]
    /\ rfOwner = "none"
    /\ rdPc = "idle" /\ rdData = NoList
    /\ rdHist = [hit |-> FALSE, at |-> "none", served |-> NoList,
                 missedInRefresh |-> FALSE, n |-> 0, prev |-> NoList,
                 queried |-> FALSE, clean |-> FALSE, wasClean |-> FALSE,
                 uncleared |-> FALSE, wasUncleared |-> FALSE]
    /\ sPc = "IDLE" /\ sVariant = "none" /\ sCands = <<>> /\ sTasks = <<>>
    /\ sSnaps = <<>> /\ sCount = NoCount
    /\ sErrors = <<>> /\ sResp = NoResp /\ sHist = NoStatsHist
    /\ cycles = [g |-> 0, s |-> 0, r |-> 0]

\* no request in progress
InitQuiet ==
    /\ InitRequests
    /\ geoRes = [c \in GeoCallers |-> NoResolution]
    /\ calc = NoCalc

\* no request in progress, nothing spent
InitIdle == InitQuiet /\ faults = 0

\* empty tables, empty caches, no refresh ever run
InitFresh ==
    /\ nodes = EmptyMap /\ snapshots = <<>> /\ networkStats = <<>>
    /\ errorLog = <<>> /\ geoCache = EmptyMap
    /\ nodesCache = EmptyNodesCache /\ statsCache = clearStatsCache
    /\ rfNodes = NoRfNodes /\ rfStats = [r \in Ranges |-> "idle"]

\* a fresh deployment
Init == InitFresh /\ InitIdle

\* a fresh deployment seen from a function that is applied on its own
InitApart ==
    /\ InitFresh /\ InitRequests
    /\ geoRes = [c \in GeoCallers |-> NoResolution]
    /\ faults = 0

\* injected failures are charged to the budget
ChargeN(n) == faults + n <= MaxFaults /\ faults' = faults + n
Charge(isFault) == ChargeN(IF isFault THEN 1 ELSE 0)

\* no refresh task started by an earlier cycle is still running
RefreshQuiet ==
    /\ rfNodes.st \notin {"pending", "read"}
    /\ \A r \in Ranges : rfStats[r] # "pending"

(***************************************************************************)
(* The gossip-sync request (POST /api/cron/gossip-sync).                   *)
(***************************************************************************)
notGossip == <<rfVars, rdVars, sVars>>

\* Step 1 begins: fetchGossipDataWithFallback is called
GossipStart ==
    /\ gPc \in {"IDLE", "FAILED"}
    /\ cycles.g < MaxGossipCycles
    /\ RefreshQuiet
    /\ FbStart("gossip-sync")
    /\ gPc' = "FETCHING"
    /\ gRaw' = <<>> /\ gCredits' = EmptyMap /\ gIdx' = 0 /\ gProcessed' = <<>>
    /\ gErrors' = <<>> /\ gTx' = NoTx /\ gResp' = NoResp
    /\ gHist' = [pre |-> DbView,
                 prev |-> [committed |-> gResp.success, raw |-> gRaw,
                           credits |-> gCredits, geoIn |-> gHist.geoIn,
                           storeFault |-> gHist.storeFault,
                           nProcessed |-> Len(gProcessed), nodes |-> nodes,
                           nSnaps |-> Len(snapshots) - gHist.pre.nSnaps,
                           nStats |-> Len(networkStats) - gHist.pre.nStats],
                 geoIn |-> EmptyMap, storeFault |-> FALSE, upserted |-> {},
                 logCalls |-> <<>>, tables |-> gHist.tables]
    /\ cycles' = [cycles EXCEPT !.g = @ + 1]
    /\ UNCHANGED <<dbVars, cacheVars, notGossip, faults>>

\* a faulty variant: a failed write of the log entry escapes to the outer catch
GossipFailRaised(phase, logOk) ==
    [status |-> 500, success |-> FALSE, phase |-> IF logOk THEN phase ELSE "critical"]

\* the response that follows the awaited logErrorToDb of a failed phase
GossipFailResponse(phase, logOk) == [status |-> 500, success |-> FALSE, phase |-> phase]

\* an awaited logErrorToDb followed by the failure response
GossipFail(phase, thrown) ==
    /\ \E logOk \in BOOLEAN :
        /\ ChargeN(thrown + (IF logOk THEN 0 ELSE 1))
        /\ errorLog' = logErrorToDb(errorLog, "cron/gossip-sync", phase, NoString, logOk)
        /\ gResp' = GossipFailResponse(phase, logOk)
    /\ gHist' = [gHist EXCEPT !.logCalls = Append(@, phase)]
    /\ gPc' = "FAILED"

\* every endpoint failed: the fetch error is logged and the request ends with 500
GossipFetchFailed ==
    /\ gPc = "FETCHING" /\ fbPc = "threw"
    /\ GossipFail("fetch", 0)
    /\ FbReset
    /\ UNCHANGED <<nodes, snapshots, networkStats, geoCache, cacheVars,
                   gRaw, gCredits, gIdx, gProcessed, gErrors, gTx, notGossip, cycles>>

\* a faulty variant: a cycle that found nothing to do answers as a failed one
NothingToDoFailed == [status |-> 500, success |-> FALSE, phase |-> "empty"]

\* NextResponse.json({ success: false, ... }) of a cycle that found nothing to do
NothingToDo == [status |-> 200, success |-> FALSE, phase |-> "empty"]

\* an endpoint answered: an empty list ends the request, otherwise Step 2 (credits)
GossipFetched ==
    /\ gPc = "FETCHING" /\ fbPc = "returned"
    /\ gRaw' = fbResult
    /\ IF Len(fbResult) = 0
       THEN /\ gPc' = "IDLE"
            /\ gResp' = NothingToDo
            /\ UNCHANGED <<gCredits, gIdx, faults>>
       ELSE /\ \E ok \in BOOLEAN : Charge(~ok) /\ gCredits' = getCredits(ok)
            /\ gPc' = "PREPROCESSING"
            /\ gIdx' = 1
            /\ gResp' = gResp
    /\ FbReset
    /\ UNCHANGED <<dbVars, cacheVars, gProcessed, gErrors, gTx, gHist, notGossip, cycles>>

NoteGeo(g, ip, o) ==
    LET a == IF o = "lookupFails" THEN "fail" ELSE "success" IN
    IF o \notin {"success", "createThrows", "lookupFails"} THEN g
    ELSE IF ip \in DOMAIN g THEN [g EXCEPT ![ip] = @ \cup {a}] ELSE g @@ (ip :> {a})

\* Step 3, one iteration of the loop over rawPods
PreprocessPod ==
    /\ gPc = "PREPROCESSING"
    /\ LET pod == gRaw[gIdx]
           ip == PodIp(pod)
           next == IF gIdx = Len(gRaw) THEN "COMMITTING" ELSE "PREPROCESSING"
       IN
       IF pod.isNull
       THEN \* pod.address throws; the handler's own pod.ip throws again
            /\ GossipFail("critical", 0)
            /\ UNCHANGED <<geoCache, gIdx, gProcessed, gErrors>>
       ELSE IF ~ValidIp(ip)
       THEN /\ gErrors' = Append(gErrors, [node |-> <<"unknown">>, phase |-> "validation"])
            /\ gIdx' = gIdx + 1
            /\ gPc' = next
            /\ UNCHANGED <<errorLog, geoCache, gProcessed, gResp, gHist, faults>>
       ELSE \E o \in GeoOutcomes(ip, geoCache) :
            LET r == resolveGeoLocation(ip, geoCache, o) IN
            /\ Charge(GeoFault(o))
            /\ geoCache' = r.cache
            /\ IF r.threw
               THEN /\ gErrors' = Append(gErrors, [node |-> PodNodeId(pod),
                                                   phase |-> "preprocessing"])
                    /\ gProcessed' = gProcessed
               ELSE /\ gProcessed' = Append(gProcessed, ProcessedNode(pod, r.geo, gCredits))
                    /\ gErrors' = gErrors
            /\ gHist' = [gHist EXCEPT !.geoIn = NoteGeo(@, ip, o),
                                      !.storeFault = @ \/ o \in {"findThrows", "createThrows"}]
            /\ gIdx' = gIdx + 1
            /\ gPc' = next
            /\ UNCHANGED <<errorLog, gResp>>
    /\ UNCHANGED <<nodes, snapshots, networkStats, cacheVars, fbVars, auxVars,
                   gRaw, gCredits, gTx, notGossip, cycles>>

\* Step 4a: the transaction opens and marks every node inactive
TxMarkInactive ==
    /\ gPc = "COMMITTING" /\ ~gTx.open
    /\ \/ /\ gTx' = [open |-> TRUE, nodes |-> MarkAllInactive(nodes), snaps |-> <<>>, i |-> 1]
          /\ UNCHANGED <<errorLog, gPc, gResp, gHist, faults>>
       \/ /\ GossipFail("transaction", 1)
          /\ gTx' = NoTx
    /\ UNCHANGED <<nodes, snapshots, networkStats, geoCache, cacheVars, fbVars, auxVars,
                   gRaw, gCredits, gIdx, gProcessed, gErrors, notGossip, cycles>>

\* Step 4b, one iteration: upsert, then the snapshot; a throw is caught per node
TxUpsert ==
    /\ gPc = "COMMITTING" /\ gTx.open /\ gTx.i <= Len(gProcessed)
    /\ \E ok \in BOOLEAN :
        LET n == gProcessed[gTx.i] IN
        /\ Charge(~ok)
        /\ gTx' = [gTx EXCEPT !.nodes = IF ok THEN GossipUpsert(@, n) ELSE @,
                              !.snaps = SnapsAfterUpsert(@, n, ok),
                              !.i = @ + 1]
        /\ gErrors' = IF ok THEN gErrors
                      ELSE Append(gErrors, [node |-> n.ip, phase |-> "upsert"])
        /\ gHist' = [gHist EXCEPT !.upserted = IF ok THEN @ \cup {n.ip} ELSE @,
                                  !.storeFault = @ \/ ~ok]
    /\ UNCHANGED <<dbVars, cacheVars, fbVars, auxVars, gPc, gRaw, gCredits, gIdx,
                   gProcessed, gResp, notGossip, cycles>>

\* a faulty variant, a store without rollback: the node writes made before
\* the throw stay
TxLeaveWrites == nodes' = gTx.nodes /\ UNCHANGED <<snapshots, networkStats>>

\* db.$transaction rejects: none of its writes reaches the tables
TxRollback == UNCHANGED <<nodes, snapshots, networkStats>>

\* db.$transaction resolves: all of its writes reach the tables at once
TxCommit ==
    /\ nodes' = gTx.nodes
    /\ snapshots' = createMany(snapshots, gTx.snaps)
    /\ networkStats' = Append(networkStats, GossipRollup(gProcessed, gTx.nodes))

\* the rest of the transaction: createMany, the inactive count, the NetworkStats
\* row, and the commit; a throw of any of them rolls everything back
TxFinish ==
    /\ gPc = "COMMITTING" /\ gTx.open /\ gTx.i > Len(gProcessed)
    /\ \/ /\ TxCommit
          /\ gPc' = "CACHE_REFRESH"
          /\ gHist' = [gHist EXCEPT !.tables = @ \cup {gTx.nodes}]
          /\ UNCHANGED <<errorLog, gResp, faults>>
       \/ /\ GossipFail("transaction", 1)
          /\ TxRollback
    /\ gTx' = NoTx
    /\ UNCHANGED <<geoCache, cacheVars, fbVars, auxVars, gRaw, gCredits, gIdx,
                   gProcessed, gErrors, notGossip, cycles>>

(***************************************************************************)
(* Cache refresh: refreshNetworkStatsCache and refreshNodesCache.          *)
(***************************************************************************)
\* both refresh functions run up to their first await: each clears its cache
\* and issues its store queries
RefreshBegin(owner, withNodes) ==
    /\ rfOwner = "none"
    /\ statsCache' = clearStatsCache
    /\ rfStats' = [r \in Ranges |-> "pending"]
    /\ IF withNodes
       THEN nodesCache' = clearNodesCache /\ rfNodes' = [st |-> "pending", data |-> NoList]
       ELSE UNCHANGED <<nodesCache, rfNodes>>
    /\ rfOwner' = owner
    /\ rdHist' = [rdHist EXCEPT !.missedInRefresh = FALSE,
                                !.clean = @ /\ ~withNodes,
                                !.uncleared = @ /\ ~withNodes]

\* refreshNetworkStatsCache has returned: every range is set, or one has thrown
StatsRefreshSettled ==
    \/ \A r \in Ranges : rfStats[r] = "set"
    \/ \E r \in Ranges : rfStats[r] = "failed"

GossipRefreshStart ==
    /\ gPc = "CACHE_REFRESH"
    /\ RefreshBegin("gossip-sync", TRUE)
    /\ UNCHANGED <<dbVars, fbVars, auxVars, gVars, rdPc, rdData, sVars, cycles, faults>>

\* one range of refreshNetworkStatsCache: fetchNetworkStatsFromDb, then setCachedStats
RfStatsRange(r) ==
    /\ rfStats[r] = "pending"
    /\ \/ /\ statsCache' = setCachedStats(statsCache, r,
                               fetchNetworkStatsFromDb(r, nodes, snapshots))
          /\ rfStats' = [rfStats EXCEPT ![r] = "set"]
          /\ UNCHANGED faults
       \/ /\ Charge(TRUE)
          /\ rfStats' = [rfStats EXCEPT ![r] = "failed"]
          /\ UNCHANGED statsCache
    /\ UNCHANGED <<dbVars, nodesCache, fbVars, auxVars, gVars, rfNodes, rfOwner, rdVars, sVars, cycles>>

\* refreshNodesCache: the store answers fetchNodesFromDb, or the query throws
RfNodesRead ==
    /\ rfNodes.st = "pending"
    /\ \/ /\ \E d \in fetchNodesFromDb(nodes) : rfNodes' = [st |-> "read", data |-> d]
          /\ UNCHANGED faults
       \/ /\ Charge(TRUE)
          /\ rfNodes' = [st |-> "failed", data |-> NoList]
    /\ UNCHANGED <<dbVars, cacheVars, fbVars, auxVars, gVars, rfStats, rfOwner, rdVars, sVars, cycles>>

\* refreshNodesCache: setCachedNodes(data)
RfNodesSet ==
    /\ rfNodes.st = "read"
    /\ nodesCache' = setCachedNodes(rfNodes.data)
    /\ rfNodes' = [rfNodes EXCEPT !.st = "set"]
    /\ rdHist' = [rdHist EXCEPT !.clean = FALSE]
    /\ UNCHANGED <<dbVars, statsCache, fbVars, auxVars, gVars, rfStats, rfOwner, rdPc, rdData,
                   sVars, cycles, faults>>

\* a faulty variant: a refresh that failed fails the request
GossipDoneStrict(cacheFailed) ==
    IF cacheFailed THEN [status |-> 500, success |-> FALSE, phase |-> "cache"]
    ELSE [status |-> 200, success |-> TRUE, phase |-> "done"]

\* the response after the refresh: "Don't fail the request, just log"
GossipDone(cacheFailed) == [status |-> 200, success |-> TRUE, phase |-> "done"]

\* a refresh function has logged a failure of its own
RefreshFailed == rfNodes.st = "failed" \/ \E r \in Ranges : rfStats[r] = "failed"

\* Promise.all of the two refreshes has resolved: the success response
GossipRefreshDone ==
    /\ gPc = "CACHE_REFRESH" /\ rfOwner = "gossip-sync"
    /\ StatsRefreshSettled /\ rfNodes.st \in {"set", "failed"}
    /\ gPc' = "IDLE"
    /\ gResp' = GossipDone(RefreshFailed)
    /\ rfOwner' = "none"
    /\ UNCHANGED <<dbVars, cacheVars, fbVars, auxVars, gRaw, gCredits, gIdx, gProcessed,
                   gErrors, gTx, gHist, rfNodes, rfStats, rdVars, sVars, cycles, faults>>

(***************************************************************************)
(* A reader of the node list: getNodesList.                                *)
(***************************************************************************)
RefreshInFlight == rfNodes.st \in {"pending", "read"}

\* getCachedNodes: a hit is served at once, a miss goes to the store
ReadStart ==
    /\ rdPc = "idle" /\ cycles.r < MaxReads
    /\ cycles' = [cycles EXCEPT !.r = @ + 1]
    /\ IF nodesCache.set
       THEN /\ rdHist' = [rdHist EXCEPT !.hit = TRUE, !.at = rfNodes.st,
                                        !.served = nodesCache.data,
                                        !.n = @ + 1, !.prev = rdHist.served,
                                        !.queried = FALSE,
                                        !.clean = TRUE, !.wasClean = rdHist.clean,
                                        !.uncleared = TRUE,
                                        !.wasUncleared = rdHist.uncleared]
            /\ UNCHANGED rdPc
       ELSE /\ rdHist' = [rdHist EXCEPT !.hit = FALSE, !.at = rfNodes.st,
                                        !.queried = FALSE,
                                        !.missedInRefresh = @ \/ RefreshInFlight]
            /\ rdPc' = "miss"
    /\ UNCHANGED <<dbVars, cacheVars, fbVars, auxVars, gVars, rfVars, rdData, sVars, faults>>

\* the store answers the reader's fetchNodesFromDb, or the query throws (500)
ReaderDbRead ==
    /\ rdPc = "miss"
    /\ \/ /\ \E d \in fetchNodesFromDb(nodes) : rdData' = d
          /\ rdPc' = "fetched"
          /\ UNCHANGED faults
       \/ /\ Charge(TRUE)
          /\ rdPc' = "idle"
          /\ UNCHANGED rdData
    /\ rdHist' = [rdHist EXCEPT !.queried = TRUE]
    /\ UNCHANGED <<dbVars, cacheVars, fbVars, auxVars, gVars, rfVars, sVars, cycles>>

\* setCachedNodes(data); return data
ReaderSet ==
    /\ rdPc = "fetched"
    /\ nodesCache' = setCachedNodes(rdData)
    /\ rdHist' = [rdHist EXCEPT !.served = rdData, !.n = @ + 1, !.prev = rdHist.served,
                                !.clean = TRUE, !.wasClean = rdHist.clean,
                                !.uncleared = TRUE, !.wasUncleared = rdHist.uncleared]
    /\ rdPc' = "idle"
    /\ UNCHANGED <<dbVars, statsCache, fbVars, auxVars, gVars, rfVars, rdData, sVars, cycles, faults>>

(***************************************************************************)
(* The stats updater (POST /api/cron/stats-updater), in its two variants:  *)
(* "sequential" walks every node one by one; "batched" walks the active    *)
(* nodes in chunks of BATCH_SIZE whose members run concurrently.           *)
(***************************************************************************)
BATCH_SIZE == 10
BytesPerGB == 1073741824

NoAnswer(kind) ==
    [kind |-> kind, cpu_percent |-> 0, ram_used |-> 0, ram_total |-> 0, uptime |-> 0,
     file_size |-> 0, active_streams |-> 0, packets_received |-> 0, packets_sent |-> 0]

\* what the get-stats call to a node may give: the request throws, the body
\* has no result, or a result (1.5 GB of files; or all zeros)
StatsAnswers ==
    { NoAnswer("throws"), NoAnswer("noresult"), NoAnswer("result"),
      [kind |-> "result", cpu_percent |-> 50, ram_used |-> 1, ram_total |-> 4,
       uptime |-> 500, file_size |-> 1610612736, active_streams |-> 2,
       packets_received |-> 10, packets_sent |-> 20] }

\* a faulty variant: a node that reports no memory counts as full
ramPercentFull(used, total) == IF total > 0 THEN (used * 100) \div total ELSE 100

\* result.ram_total > 0 ? (result.ram_used / result.ram_total) * 100 : 0,
\* in whole percent
ramPercent(used, total) == IF total > 0 THEN (used * 100) \div total ELSE 0

\* getStats: null for a failed call or a body without result; ramPercent is
\* (ram_used / ram_total) * 100, and 0 when ram_total is not positive
getStats(ans) ==
    [isNull |-> ans.kind # "result",
     cpuPercent |-> ans.cpu_percent,
     ramPercent |-> ramPercent(ans.ram_used, ans.ram_total),
     ramUsed |-> ans.ram_used, ramTotal |-> ans.ram_total, uptime |-> ans.uptime,
     fileSize |-> ans.file_size, activeStreams |-> ans.active_streams,
     packetsReceived |-> ans.packets_received, packetsSent |-> ans.packets_sent]

\* stats.fileSize ? stats.fileSize / (1024 ** 3) : 0, in tenths of a gigabyte
StorageOfBytes(fileSize) ==
    IF fileSize # 0
    THEN (fileSize \div BytesPerGB) * 10 + (fileSize % BytesPerGB) \div (BytesPerGB \div 10)
    ELSE 0

\* a faulty variant: the update of the branch with stats leaves uptime and
\* storage as they were stored
StatsUpdateKeepStorage(row, st) ==
    [row EXCEPT !.status = "active", !.cpuPercent = st.cpuPercent,
                !.ramUsage = st.ramPercent, !.ramUsed = st.ramUsed,
                !.ramTotal = st.ramTotal, !.activeStreams = st.activeStreams,
                !.packetsReceived = st.packetsReceived, !.packetsSent = st.packetsSent]

\* db.node.update of the branch with stats
StatsUpdateRow(row, st) ==
    [row EXCEPT !.status = "active", !.cpuPercent = st.cpuPercent,
                !.ramUsage = st.ramPercent, !.ramUsed = st.ramUsed,
                !.ramTotal = st.ramTotal, !.activeStreams = st.activeStreams,
                !.packetsReceived = st.packetsReceived, !.packetsSent = st.packetsSent,
                !.uptime = st.uptime, !.storage = StorageOfBytes(st.fileSize)]

\* db.node.update of the branch without stats
StatsInactiveRow(row) == [row EXCEPT !.status = "inactive"]

ActiveSnapshot(c, st) ==
    [nodeIp |-> c.ip, credits |-> c.credits, storage |-> StorageOfBytes(st.fileSize),
     uptime |-> st.uptime, status |-> "active",
     cpuPercent |-> st.cpuPercent, ramUsage |-> st.ramPercent, ramUsed |-> st.ramUsed,
     ramTotal |-> st.ramTotal, activeStreams |-> st.activeStreams,
     packetsReceived |-> st.packetsReceived, packetsSent |-> st.packetsSent]

InactiveSnapshot(c) ==
    [nodeIp |-> c.ip, credits |-> c.credits, storage |-> 0, uptime |-> 0,
     status |-> "inactive", cpuPercent |-> 0, ramUsage |-> 0, ramUsed |-> 0,
     ramTotal |-> 0, activeStreams |-> 0, packetsReceived |-> 0, packetsSent |-> 0]

\* a faulty variant: the snapshot is pushed ahead of the node update, whatever
\* becomes of the update
StatsSnapsBeforeUpdate(snaps, snap, updateOk) == Append(snaps, snap)

\* the snapshot is pushed after the awaited node update, inside the try
StatsSnapsAfterUpdate(snaps, snap, updateOk) ==
    IF updateOk THEN Append(snaps, snap) ELSE snaps

\* the rows db.node.findMany selects: all of them, or those with status active
StatsCandidates(v, tbl) ==
    IF v = "batched" THEN {ip \in DOMAIN tbl : tbl[ip].status = "active"}
    ELSE DOMAIN tbl

\* findMany has no orderBy: the rows come in an order the store picks
Orderings(S) ==
    { o \in [1..Cardinality(S) -> S] : \A i, j \in DOMAIN o : i # j => o[i] # o[j] }

\* select: { ip, pubkey, credits }
Cand(tbl, ip) == [ip |-> ip, pubkey |-> tbl[ip].pubkey, credits |-> tbl[ip].credits]

ChunkOf(i) == (i - 1) \div BATCH_SIZE

\* the loop reaches candidate i: after its predecessors (sequential), or after
\* every chunk before its own (batched)
TaskEnabled(v, tasks, i) ==
    /\ tasks[i] = "todo"
    /\ IF v = "sequential"
       THEN \A j \in 1..(i - 1) : tasks[j] = "done"
       ELSE \A j \in DOMAIN tasks : ChunkOf(j) < ChunkOf(i) => tasks[j] = "done"

StatsErrorPhase(v) == IF v = "sequential" THEN "stats-update" ELSE "update"

StatsRollup(cnt) ==
    [activeNodes |-> cnt.active, inactiveNodes |-> cnt.inactive,
     totalStorage |-> cnt.storage, totalCredits |-> cnt.credits]

notStats == <<fbVars, auxVars, gVars, rdVars>>

\* the request begins: the candidates are read from the Node table
StatsStart(v) ==
    /\ sPc = "IDLE" /\ cycles.s < MaxStatsCycles /\ RefreshQuiet
    /\ cycles' = [cycles EXCEPT !.s = @ + 1]
    /\ sVariant' = v
    /\ sSnaps' = <<>> /\ sCount' = NoCount /\ sErrors' = <<>>
    /\ sHist' = [pre |-> nodes, nSnaps |-> Len(snapshots), threw |-> {}, refreshed |-> {},
                 ans |-> EmptyMap]
    /\ \/ /\ \E o \in Orderings(StatsCandidates(v, nodes)) :
                /\ sCands' = [i \in DOMAIN o |-> Cand(nodes, o[i])]
                /\ sTasks' = [i \in DOMAIN o |-> "todo"]
                /\ IF DOMAIN o = {}
                   THEN /\ sPc' = "IDLE"
                        /\ sResp' = NothingToDo
                   ELSE /\ sPc' = "UPDATING"
                        /\ sResp' = NoResp
          /\ UNCHANGED <<errorLog, faults>>
       \/ \* findMany throws: the outer catch
          /\ \E logOk \in BOOLEAN :
                /\ ChargeN(1 + (IF v = "sequential" /\ ~logOk THEN 1 ELSE 0))
                /\ v = "batched" => logOk
                /\ errorLog' = IF v = "sequential"
                               THEN logErrorToDb(errorLog, "cron/stats-updater", "critical",
                                                 NoString, logOk)
                               ELSE errorLog
          /\ sCands' = <<>> /\ sTasks' = <<>>
          /\ sPc' = "IDLE"
          /\ sResp' = [status |-> 500, success |-> FALSE, phase |-> "critical"]
    /\ UNCHANGED <<nodes, snapshots, networkStats, geoCache, cacheVars, rfVars, notStats>>

\* one candidate: getStats, then the node update and the snapshot push; a
\* throw is caught, recorded, and the loop goes on
StatsNode(i) ==
    /\ sPc = "UPDATING" /\ TaskEnabled(sVariant, sTasks, i)
    /\ ~gTx.open   \* the rows are locked by the updateMany of an open transaction
    /\ \E ans \in StatsAnswers, ok \in BOOLEAN, logOk \in BOOLEAN :
        LET c == sCands[i]
            st == getStats(ans)
            snap == IF st.isNull THEN InactiveSnapshot(c) ELSE ActiveSnapshot(c, st)
            row == IF st.isNull THEN StatsInactiveRow(nodes[c.ip])
                   ELSE StatsUpdateRow(nodes[c.ip], st)
        IN
        /\ ok => logOk
        /\ ChargeN((IF ok THEN 0 ELSE 1) + (IF logOk THEN 0 ELSE 1))
        /\ nodes' = IF ok THEN [nodes EXCEPT ![c.ip] = row] ELSE nodes
        /\ sCount' = IF st.isNull
                     THEN [sCount EXCEPT !.inactive = IF ok THEN @ + 1 ELSE @]
                     ELSE [sCount EXCEPT !.active = @ + 1,
                                         !.storage = @ + StorageOfBytes(st.fileSize),
                                         !.credits = @ + c.credits,
                                         !.updated = IF ok THEN @ + 1 ELSE @]
        /\ sSnaps' = StatsSnapsAfterUpdate(sSnaps, snap, ok)
        /\ sErrors' = IF ok THEN sErrors
                      ELSE Append(sErrors, [node |-> c.ip, phase |-> StatsErrorPhase(sVariant)])
        /\ errorLog' = IF ok THEN errorLog
                       ELSE logErrorToDb(errorLog, "cron/stats-updater",
                                         StatsErrorPhase(sVariant), c.ip, logOk)
        /\ sHist' = [sHist EXCEPT !.threw = IF ok THEN @ ELSE @ \cup {c.ip},
                                  !.ans = (c.ip :> ans) @@ @]
    /\ sTasks' = [sTasks EXCEPT ![i] = "done"]
    /\ sPc' = IF \A j \in DOMAIN sTasks : j = i \/ sTasks[j] = "done"
              THEN "SNAPSHOTS" ELSE "UPDATING"
    /\ UNCHANGED <<snapshots, networkStats, geoCache, cacheVars, rfVars, notStats,
                   sVariant, sCands, sResp, cycles>>

\* db.nodeSnapshot.createMany of the collected snapshots, in its own try/catch
StatsSnapshots ==
    /\ sPc = "SNAPSHOTS"
    /\ IF sSnaps = <<>>
       THEN UNCHANGED <<snapshots, errorLog, sErrors, faults>>
       ELSE \/ /\ snapshots' = createMany(snapshots, sSnaps)
               /\ UNCHANGED <<errorLog, sErrors, faults>>
            \/ /\ \E logOk \in BOOLEAN :
                    /\ ChargeN(1 + (IF logOk THEN 0 ELSE 1))
                    /\ sVariant = "batched" => logOk
                    /\ errorLog' = IF sVariant = "sequential"
                                   THEN logErrorToDb(errorLog, "cron/stats-updater",
                                                     "snapshot", NoString, logOk)
                                   ELSE errorLog
               /\ sErrors' = IF sVariant = "sequential"
                             THEN Append(sErrors, [node |-> <<"batch">>, phase |-> "snapshot"])
                             ELSE sErrors
               /\ UNCHANGED snapshots
    /\ sPc' = "NETSTATS"
    /\ UNCHANGED <<nodes, networkStats, geoCache, cacheVars, rfVars, notStats,
                   sVariant, sCands, sTasks, sSnaps, sCount, sResp, sHist, cycles>>

\* db.networkStats.create; when it throws the refresh is skipped
StatsNetworkStats ==
    /\ sPc = "NETSTATS"
    /\ \/ /\ networkStats' = Append(networkStats, StatsRollup(sCount))
          /\ sPc' = "CACHE_REFRESH"
          /\ UNCHANGED <<errorLog, sResp, faults>>
       \/ /\ \E logOk \in BOOLEAN :
                /\ ChargeN(1 + (IF logOk THEN 0 ELSE 1))
                /\ sVariant = "batched" => logOk
                /\ errorLog' = IF sVariant = "sequential"
                               THEN logErrorToDb(errorLog, "cron/stats-updater",
                                                 "network-stats", NoString, logOk)
                               ELSE errorLog
          /\ sPc' = "IDLE"
          /\ sResp' = [status |-> 200, success |-> TRUE, phase |-> "done"]
          /\ UNCHANGED networkStats
    /\ UNCHANGED <<nodes, snapshots, geoCache, cacheVars, rfVars, notStats,
                   sVariant, sCands, sTasks, sSnaps, sCount, sErrors, sHist, cycles>>

\* the caches a variant refreshes once the NetworkStats row is written
StatsRefreshes(v) == IF v = "batched" THEN {"stats", "nodes"} ELSE {"stats"}

StatsRefreshStart ==
    /\ sPc = "CACHE_REFRESH"
    /\ RefreshBegin("stats-updater", "nodes" \in StatsRefreshes(sVariant))
    /\ sHist' = [sHist EXCEPT !.refreshed = StatsRefreshes(sVariant)]
    /\ UNCHANGED <<dbVars, fbVars, auxVars, gVars, rdPc, rdData, sPc, sVariant, sCands, sTasks,
                   sSnaps, sCount, sErrors, sResp, cycles, faults>>

\* the awaited refreshes have returned: the success response
StatsRefreshDone ==
    /\ sPc = "CACHE_REFRESH" /\ rfOwner = "stats-updater"
    /\ StatsRefreshSettled
    /\ "nodes" \in StatsRefreshes(sVariant) => rfNodes.st \in {"set", "failed"}
    /\ sPc' = "IDLE"
    /\ sResp' = [status |-> 200, success |-> TRUE, phase |-> "done"]
    /\ rfOwner' = "none"
    /\ UNCHANGED <<dbVars, cacheVars, rfNodes, rfStats, notStats, sVariant, sCands,
                   sTasks, sSnaps, sCount, sErrors, sHist, cycles, faults>>

(***************************************************************************)
(* Specifications.                                                         *)
(***************************************************************************)
notFallback == <<dbVars, cacheVars, gVars, rfVars, rdVars, sVars, auxVars, cycles, faults>>

FallbackCall == FbCall /\ UNCHANGED notFallback

\* gossip-sync cycles, one after the other, the only writer of the store
NextSync ==
    \/ GossipStart
    \/ FallbackCall
    \/ GossipFetchFailed
    \/ GossipFetched
    \/ PreprocessPod
    \/ TxMarkInactive
    \/ TxUpsert
    \/ TxFinish
    \/ GossipRefreshStart
    \/ \E r \in Ranges : RfStatsRange(r)
    \/ RfNodesRead
    \/ RfNodesSet
    \/ GossipRefreshDone

SpecSync == Init /\ [][NextSync]_vars

\* the same cycles with a reader of the node list beside them
Next ==
    \/ NextSync
    \/ ReadStart /\ cycles.r < MaxReadsBeside
    \/ ReaderDbRead
    \/ ReaderSet

Spec == Init /\ [][Next]_vars

\* one gossip-sync cycle of a fresh deployment with readers beside it
NextRead ==
    \/ GossipStart /\ cycles.g < MaxCyclesBeside
    \/ FallbackCall
    \/ GossipFetchFailed
    \/ GossipFetched
    \/ PreprocessPod
    \/ TxMarkInactive
    \/ TxUpsert
    \/ TxFinish
    \/ GossipRefreshStart
    \/ \E r \in Ranges : RfStatsRange(r)
    \/ RfNodesRead
    \/ RfNodesSet
    \/ GossipRefreshDone
    \/ ReadStart
    \/ ReaderDbRead
    \/ ReaderSet

SpecRead == Init /\ [][NextRead]_vars

\* the two fallback functions on their own
FallbackStart == \E fn \in {"gossip-sync", "client"} : FbStart(fn) /\ UNCHANGED notFallback
FallbackEnd == fbPc \in {"returned", "threw"} /\ FbReset /\ UNCHANGED notFallback

NextFallback == FallbackStart \/ FallbackCall \/ FallbackEnd

SpecFallback == Init /\ [][NextFallback]_vars

(***************************************************************************)
(* Properties of the gossip-sync cycle (checked under Spec).               *)
(***************************************************************************)
\* the canonical IPs of the records of a response that pass validation
ValidIpsOf(raw) ==
    {PodIp(raw[i]) : i \in {j \in 1..Len(raw) : ~raw[j].isNull /\ ValidIp(PodIp(raw[j]))}}

ActiveIps(tbl) == {ip \in DOMAIN tbl : tbl[ip].status = "active"}

\* the transaction of the current cycle has committed
Committed == gPc = "CACHE_REFRESH" \/ (gPc = "IDLE" /\ gResp.success)

TxFailed == gPc = "FAILED" /\ gResp.phase = "transaction"

\* C1: once a cycle has committed, the active rows of the Node table are exactly
\* the IPs the cycle upserted, all of them valid canonical IPs of the response;
\* when no record of the cycle met a store failure they are exactly the valid
\* IPs of the response; every other row is inactive and no row has disappeared
\* (the mark-all-inactive comes before every upsert, never after one).
C1_ActiveSetIsResponse ==
    Committed =>
        /\ ActiveIps(nodes) = gHist.upserted
        /\ ActiveIps(nodes) \subseteq ValidIpsOf(gRaw)
        /\ ~gHist.storeFault => ActiveIps(nodes) = ValidIpsOf(gRaw)
        /\ \A ip \in DOMAIN nodes \ ValidIpsOf(gRaw) : nodes[ip].status = "inactive"
        /\ DOMAIN nodes = DOMAIN gHist.pre.nodes \cup gHist.upserted

\* a committed cycle whose response held a record without a usable IP and
\* dropped out a node that an earlier cycle had stored
C1_Witness ==
    /\ Committed /\ ~gHist.storeFault
    /\ Len(gRaw) > Cardinality(ValidIpsOf(gRaw))
    /\ ValidIpsOf(gRaw) # {}
    /\ \E ip \in DOMAIN nodes : nodes[ip].status = "inactive" /\ ip \notin ValidIpsOf(gRaw)

StoreAsBefore ==
    /\ nodes = gHist.pre.nodes
    /\ Len(snapshots) = gHist.pre.nSnaps
    /\ Len(networkStats) = gHist.pre.nStats

\* C2 (as amended): while the transaction is open none of its writes is visible,
\* and when mark-all-inactive, the snapshot insert, the inactive count, the
\* NetworkStats insert or the commit raises, the cycle fails with status 500 and
\* phase 'transaction' and Node, NodeSnapshot and NetworkStats are as before the
\* cycle; the exception of a single upsert is caught: it puts an 'upsert' error
\* on the cycle's list and leaves that node out of what is committed.
C2_RollbackExceptUpsert ==
    /\ gPc = "COMMITTING" => StoreAsBefore
    /\ TxFailed => StoreAsBefore /\ gResp.status = 500 /\ ~gResp.success
                   /\ gHist.logCalls = <<"transaction">>
    /\ Committed =>
         Len(snapshots) - gHist.pre.nSnaps =
            Len(gProcessed) - Cardinality({i \in 1..Len(gErrors) : gErrors[i].phase = "upsert"})

\* a transaction that failed after it had upserted nodes over an existing table
C2_Witness ==
    /\ TxFailed
    /\ gHist.upserted # {}
    /\ gHist.pre.nodes # EmptyMap
    /\ \E ip \in gHist.upserted : ip \notin DOMAIN nodes

\* C2 (as written): an exception of a single node upsert keeps the cycle from
\* committing
C2_UpsertThrowAborts ==
    (\E i \in 1..Len(gErrors) : gErrors[i].phase = "upsert") => ~Committed

FetchLogEntry == [source |-> "cron/gossip-sync", phase |-> "fetch", nodeId |-> NoString]

\* a step of the cycle while it is fetching (a call of the fallback, or its end)
FetchingStep == gPc = "FETCHING" /\ (fbVars' # fbVars \/ gPc' # gPc)

\* C3: no step of the fetch phase touches Node, NodeSnapshot, NetworkStats,
\* GeoCache or either cache; when every endpoint has failed the cycle makes one
\* logErrorToDb call, of phase 'fetch' (one ErrorLog entry, unless that write
\* itself fails), and ends with status 500 and phase 'fetch'.
C3_FetchFailureFrame ==
    [][FetchingStep =>
        /\ UNCHANGED <<nodes, snapshots, networkStats, geoCache, nodesCache, statsCache>>
        /\ IF gPc' = "FAILED"
           THEN /\ fbPc = "threw"
                /\ gResp' = [status |-> 500, success |-> FALSE, phase |-> "fetch"]
                /\ gHist'.logCalls = <<"fetch">>
                /\ errorLog' \in {errorLog, Append(errorLog, FetchLogEntry)}
           ELSE errorLog' = errorLog]_vars

\* a cycle that failed in its fetch phase over a populated store and populated
\* caches, with its ErrorLog entry written
C3_Witness ==
    /\ gPc = "FAILED" /\ gResp.phase = "fetch"
    /\ Len(errorLog) = gHist.pre.nLog + 1
    /\ errorLog[Len(errorLog)] = FetchLogEntry
    /\ nodes # EmptyMap /\ nodesCache.set /\ \A r \in Ranges : statsCache[r].set
    /\ StoreAsBefore

\* the geo-IP service gave the two cycles the same answer for every address
\* both of them asked about
GeoAgree ==
    \A ip \in DOMAIN gHist.geoIn \cap DOMAIN gHist.prev.geoIn :
        gHist.geoIn[ip] = gHist.prev.geoIn[ip]

\* the current cycle and the one before it both committed, on identical inputs,
\* and neither met a store failure
SameInputsTwice ==
    /\ Committed /\ gHist.prev.committed
    /\ gHist.prev.raw = gRaw /\ gHist.prev.credits = gCredits /\ GeoAgree
    /\ ~gHist.storeFault /\ ~gHist.prev.storeFault

\* C6: when two successive cycles commit on identical gossip, credits and geo
\* data with no store failure and no other writer, the Node table after the
\* second equals the Node table after the first, and each of the two added one
\* NodeSnapshot per preprocessed node and exactly one NetworkStats row.
C6_RerunSameRows ==
    SameInputsTwice =>
        /\ nodes = gHist.prev.nodes
        /\ Len(gProcessed) = gHist.prev.nProcessed
        /\ Len(snapshots) - gHist.pre.nSnaps = Len(gProcessed)
        /\ gHist.prev.nSnaps = gHist.prev.nProcessed
        /\ Len(networkStats) - gHist.pre.nStats = 1
        /\ gHist.prev.nStats = 1

\* two such cycles over a response with two records of the same address
C6_Witness ==
    /\ SameInputsTwice
    /\ Len(gProcessed) = 2 /\ Cardinality(DOMAIN nodes) = 1
    /\ Len(snapshots) = 4 /\ Len(networkStats) = 2

PhaseOrder ==
    { <<"IDLE", "FETCHING">>, <<"FAILED", "FETCHING">>,
      <<"FETCHING", "PREPROCESSING">>, <<"FETCHING", "IDLE">>,
      <<"PREPROCESSING", "COMMITTING">>, <<"COMMITTING", "CACHE_REFRESH">>,
      <<"CACHE_REFRESH", "IDLE">>,
      <<"FETCHING", "FAILED">>, <<"COMMITTING", "FAILED">> }

\* C7: the phase of a cycle changes only along FETCHING, PREPROCESSING,
\* COMMITTING, CACHE_REFRESH, idle (an empty response ends the cycle from
\* FETCHING), a cycle fails only from FETCHING or COMMITTING, and Node,
\* NodeSnapshot and NetworkStats change only in a step taken in COMMITTING.
C7_PhaseOrder ==
    [][/\ gPc' # gPc => <<gPc, gPc'>> \in PhaseOrder
       /\ <<nodes, snapshots, networkStats>>' # <<nodes, snapshots, networkStats>>
            => gPc = "COMMITTING"]_vars

\* C8 (as amended): a cache slot is empty only before its first refresh, while a
\* refresh of it is under way (cleared, not yet set again) or after that
\* refresh failed: once a refresh of a slot has succeeded the slot stays
\* populated until the next refresh clears it, and a read of the node list
\* misses only in one of those three situations.
C8_EmptyOnlyUntilSet ==
    /\ rfNodes.st = "set" => nodesCache.set
    /\ ~nodesCache.set => rfNodes.st \in {"idle", "pending", "read", "failed"}
    /\ \A r \in Ranges : rfStats[r] = "set" => statsCache[r].set
    /\ (cycles.r > 0 /\ ~rdHist.hit) => rdHist.at \in {"idle", "pending", "read", "failed"}

\* a read after a refresh that succeeded, served from the cache
C8_Witness ==
    /\ rfNodes.st = "set" /\ \A r \in Ranges : rfStats[r] = "set"
    /\ cycles.r = 1 /\ rdHist.hit /\ rdHist.at = "set"
    /\ rdHist.served = nodesCache.data
    /\ ~rdHist.missedInRefresh
    /\ nodes # EmptyMap

\* C8 (as written): no reader finds the node list slot empty while a refresh
\* that goes on to succeed is under way
C8_NoMissDuringGoodRefresh == rfNodes.st = "set" => ~rdHist.missedInRefresh

(***************************************************************************)
(* Properties of the endpoint fallback (checked under SpecFallback).       *)
(***************************************************************************)
LastCall == fbCalls[Len(fbCalls)]

\* the fallback has ended on an endpoint that answered with a pod list
FbStoppedOnValid == fbPc = "returned" /\ fbCalls # <<>> /\ IsPodList(LastCall.out)

\* the fallback has ended after every endpoint failed to give a pod list
FbAllInVain ==
    /\ fbPc \in {"returned", "threw"}
    /\ Len(fbCalls) = Len(fbOrder)
    /\ \A i \in 1..Len(fbCalls) : ~IsPodList(fbCalls[i].out)

\* C4: when the fallback stops on a valid response, the endpoints were called
\* one at a time in list order, none before the last gave a pod list, the
\* payload of the last is what is used, and the errors recorded are exactly
\* one for each endpoint tried before it.
C4_OneErrorPerEarlierEndpoint ==
    FbStoppedOnValid =>
        /\ \A i \in 1..Len(fbCalls) : fbCalls[i].node = fbOrder[i]
        /\ \A i \in 1..(Len(fbCalls) - 1) : ~IsPodList(fbCalls[i].out)
        /\ fbResult = LastCall.out.payload
        /\ Len(fbErrors) = Len(fbCalls) - 1
        /\ \A i \in 1..Len(fbErrors) : fbErrors[i].node = fbOrder[i]

\* C5: when every endpoint failed to give a pod list, the fallback ends in an
\* aggregate failure (never in a returned, empty, result) that carries one
\* message per endpoint, for call failures and structural mismatches alike.
C5_ExhaustionIsAggregateFailure ==
    FbAllInVain =>
        /\ fbPc = "threw"
        /\ Len(fbErrors) = Len(fbOrder)
        /\ \A i \in 1..Len(fbErrors) : fbErrors[i].node = fbOrder[i]

(***************************************************************************)
(* The stats updater on its own, over a store that gossip-sync has filled. *)
(***************************************************************************)
RECURSIVE UpsertAll(_, _)
UpsertAll(tbl, processed) ==
    IF processed = <<>> THEN tbl
    ELSE UpsertAll(GossipUpsert(tbl, processed[1]), Tail(processed))

EmptyStore == [nodes |-> EmptyMap, snapshots |-> <<>>, networkStats |-> <<>>]

\* the tables after a gossip-sync transaction over the preprocessed records
AfterSync(store, processed) ==
    LET tbl == UpsertAll(MarkAllInactive(store.nodes), processed) IN
    [nodes |-> tbl,
     snapshots |-> store.snapshots \o [i \in DOMAIN processed |-> GossipSnapshot(processed[i])],
     networkStats |-> Append(store.networkStats, GossipRollup(processed, tbl))]

NodeA == ProcessedNode(PodA, GeoTruth(IP1), CreditsTruth)
NodeB == ProcessedNode(PodB, GeoTruth(IP2), CreditsTruth)

\* one sync that saw both nodes; a sync that saw node B, then one that saw
\* node A; a sync that saw node B, then one whose records were all invalid
SyncedStores ==
    { AfterSync(EmptyStore, <<NodeA, NodeB>>),
      AfterSync(AfterSync(EmptyStore, <<NodeB>>), <<NodeA>>),
      AfterSync(AfterSync(EmptyStore, <<NodeB>>), <<>>) }

InitSynced ==
    /\ \E t \in SyncedStores :
        /\ nodes = t.nodes /\ snapshots = t.snapshots /\ networkStats = t.networkStats
        /\ nodesCache \in {setCachedNodes(d) : d \in fetchNodesFromDb(t.nodes)}
        /\ statsCache = [r \in Ranges |->
                           [set |-> TRUE,
                            data |-> fetchNetworkStatsFromDb(r, t.nodes, t.snapshots)]]
    /\ errorLog = <<>>
    /\ geoCache = (IP1 :> GeoTruth(IP1)) @@ (IP2 :> GeoTruth(IP2))
    /\ rfNodes = [st |-> "set", data |-> nodesCache.data]
    /\ rfStats = [r \in Ranges |-> "set"]

InitStats == InitSynced /\ InitIdle

NextStats ==
    \/ \E v \in {"sequential", "batched"} : StatsStart(v)
    \/ \E i \in DOMAIN sTasks : StatsNode(i)
    \/ StatsSnapshots
    \/ StatsNetworkStats
    \/ StatsRefreshStart
    \/ \E r \in Ranges : RfStatsRange(r)
    \/ RfNodesRead
    \/ RfNodesSet
    \/ StatsRefreshDone
    \/ ReadStart /\ cycles.r < MaxReadsBeside
    \/ ReaderDbRead
    \/ ReaderSet

SpecStats == InitStats /\ [][NextStats]_vars

(***************************************************************************)
(* Properties of the stats updater (checked under SpecStats).              *)
(***************************************************************************)
\* a stats-updater request has ended with its success response
StatsCompleted == sPc = "IDLE" /\ sResp.success

SnapshotIps(snaps) == {snaps[k].nodeIp : k \in DOMAIN snaps}

\* C9: when a stats-updater cycle has completed it has refreshed both the
\* network-stats cache and the node-list cache, so that the node list held in
\* the cache (no reader having filled it) is the Node table the cycle left.
C9_StatsCompletionRefreshesBoth ==
    StatsCompleted =>
        /\ sHist.refreshed = {"stats", "nodes"}
        /\ (cycles.r = 0 /\ nodesCache.set) => nodesCache.data \in fetchNodesFromDb(nodes)

\* C10: a candidate whose stats update threw has its Node row exactly as the
\* cycle found it and no snapshot, in the request or in the table, and is named
\* in the cycle's errors; once the loop is over every candidate has been
\* processed, and each one that did not throw has its snapshot, with the status
\* its row now has.
C10_ThrowLeavesNodeAlone ==
    /\ \A ip \in sHist.threw :
        /\ nodes[ip] = sHist.pre[ip]
        /\ ip \notin SnapshotIps(sSnaps)
        /\ \A k \in (sHist.nSnaps + 1)..Len(snapshots) : snapshots[k].nodeIp # ip
        /\ \E e \in 1..Len(sErrors) : sErrors[e].node = ip
    /\ sPc # "UPDATING" =>
        \A i \in DOMAIN sCands :
            /\ sTasks[i] = "done"
            /\ sCands[i].ip \notin sHist.threw =>
                 \E k \in DOMAIN sSnaps :
                    /\ sSnaps[k].nodeIp = sCands[i].ip
                    /\ sSnaps[k].status = nodes[sCands[i].ip].status

\* a completed cycle over two candidates: the update of one threw, the other
\* was updated and has the only snapshot
C10_Witness ==
    /\ StatsCompleted /\ Len(sCands) = 2
    /\ Cardinality(sHist.threw) = 1
    /\ Len(sSnaps) = 1 /\ Len(snapshots) = sHist.nSnaps + 1
    /\ \E i \in DOMAIN sCands :
        /\ sCands[i].ip \notin sHist.threw
        /\ nodes[sCands[i].ip] # sHist.pre[sCands[i].ip]

(***************************************************************************)
(* The two branches of the stats updater.                                  *)
(***************************************************************************)
MetricFields ==
    {"storage", "uptime", "cpuPercent", "ramUsage", "ramUsed", "ramTotal",
     "activeStreams", "packetsReceived", "packetsSent"}

\* the candidates whose get-stats call gave no result / gave a result, and
\* whose node update did not throw
NoStatsIps == {ip \in DOMAIN sHist.ans : sHist.ans[ip].kind # "result"} \ sHist.threw
WithStatsIps == {ip \in DOMAIN sHist.ans : sHist.ans[ip].kind = "result"} \ sHist.threw

SnapsOf(ip) == {k \in DOMAIN sSnaps : sSnaps[k].nodeIp = ip}

\* C11: for every candidate whose get-stats call yields no result, the stats
\* updater sets the node's status to inactive and appends exactly one
\* snapshot, with status inactive and zero-valued: storage, credits, uptime,
\* cpu, ram, streams and packet counters are all 0.
C11_NoStatsZeroSnapshot ==
    \A ip \in NoStatsIps :
        /\ nodes[ip].status = "inactive"
        /\ Cardinality(SnapsOf(ip)) = 1
        /\ \A k \in SnapsOf(ip) :
            /\ sSnaps[k].status = "inactive"
            /\ sSnaps[k].credits = 0
            /\ \A f \in MetricFields : sSnaps[k][f] = 0

\* C12: whenever get-stats succeeds for a node, the stats updater sets the
\* node's status to active, writes the stats-owned fields, uptime and storage
\* (bytes over 1024^3, here in tenths of a gigabyte) from the response, and
\* appends exactly one snapshot whose status and metric values equal the
\* values just written to the Node row.
C12_StatsWrittenAndSnapshotted ==
    \A ip \in WithStatsIps :
        LET ans == sHist.ans[ip]
            row == nodes[ip]
        IN
        /\ row.status = "active"
        /\ row.cpuPercent = ans.cpu_percent
        /\ row.ramUsage = (IF ans.ram_total > 0
                           THEN (ans.ram_used * 100) \div ans.ram_total ELSE 0)
        /\ row.ramUsed = ans.ram_used /\ row.ramTotal = ans.ram_total
        /\ row.activeStreams = ans.active_streams
        /\ row.packetsReceived = ans.packets_received
        /\ row.packetsSent = ans.packets_sent
        /\ row.uptime = ans.uptime
        /\ row.storage = StorageOfBytes(ans.file_size)
        /\ \A f \in DOMAIN row \ (MetricFields \cup {"status"}) : row[f] = sHist.pre[ip][f]
        /\ Cardinality(SnapsOf(ip)) = 1
        /\ \A k \in SnapsOf(ip) :
            /\ sSnaps[k].status = row.status
            /\ \A f \in MetricFields : sSnaps[k][f] = row[f]

\* a node stored inactive with 0.0 GB answered with 1.5 GB of files: the row
\* is active with 1.5 GB, and so is its only snapshot
C12_Witness ==
    \E ip \in WithStatsIps :
        /\ sHist.ans[ip].file_size = 1610612736
        /\ sHist.pre[ip].storage # 15
        /\ nodes[ip].storage = 15 /\ nodes[ip].uptime = 500 /\ nodes[ip].ramUsage = 25
        /\ \E k \in SnapsOf(ip) : sSnaps[k].storage = 15 /\ sSnaps[k].status = "active"

(***************************************************************************)
(* Both cron cycles over one store.                                        *)
(***************************************************************************)
\* fetching and preprocessing touch neither a table nor a cache
GossipLocal == gPc \in {"FETCHING", "PREPROCESSING"}
NoRefresh == rfOwner = "none"

\* a gossip-sync cycle and a stats-updater cycle, their store writes
\* interleaved step by step. The steps of fetching and preprocessing commute
\* with every step of the stats updater, so they are taken first: the stats
\* updater starts, and moves, before the request or once the records are
\* preprocessed. A cache refresh writes no table: it is run to its end.
NextBoth ==
    \/ NoRefresh /\ GossipStart /\ cycles.g < MaxCyclesBeside /\ cycles.s = 0
    \/ FallbackCall
    \/ GossipFetchFailed
    \/ GossipFetched
    \/ PreprocessPod
    \/ NoRefresh /\ TxMarkInactive
    \/ NoRefresh /\ TxUpsert
    \/ NoRefresh /\ TxFinish
    \/ GossipRefreshStart
    \/ GossipRefreshDone
    \/ NoRefresh /\ ~GossipLocal /\ \E v \in {"sequential", "batched"} : StatsStart(v)
    \/ NoRefresh /\ ~GossipLocal /\ \E i \in DOMAIN sTasks : StatsNode(i)
    \/ NoRefresh /\ ~GossipLocal /\ StatsSnapshots
    \/ NoRefresh /\ ~GossipLocal /\ StatsNetworkStats
    \/ StatsRefreshStart
    \/ StatsRefreshDone
    \/ \E r \in Ranges : RfStatsRange(r)
    \/ RfNodesRead
    \/ RfNodesSet

\* the store after earlier syncs; no call fails in these behaviours
InitBoth == InitSynced /\ InitQuiet /\ faults = MaxFaults

SpecBoth == InitBoth /\ [][NextBoth]_vars

GossipOwned == {"pubkey", "version", "country", "lat", "lon", "credits"}
StatsOwned ==
    {"cpuPercent", "ramUsage", "ramUsed", "ramTotal", "activeStreams",
     "packetsReceived", "packetsSent"}

SameOn(fields, old, new) ==
    \A ip \in DOMAIN old : \A f \in fields : new[ip][f] = old[ip][f]

\* C13: a gossip-sync commit leaves the stats-owned fields of every stored
\* node as they were, and a stats-updater update leaves the gossip-owned
\* fields as they were, however the steps of the two cycles interleave.
C13_FieldOwnership ==
    [][/\ (gTx.open /\ ~gTx'.open) => SameOn(StatsOwned, nodes, nodes')
       /\ sTasks' # sTasks => SameOn(GossipOwned, nodes, nodes')]_vars

\* a node whose resource fields the stats updater had written was then
\* upserted by a committed transaction: cpu is kept, storage is the gossip's
C13_Witness ==
    \E ip \in gHist.upserted :
        /\ gPc = "CACHE_REFRESH"
        /\ ip \in WithStatsIps /\ sHist.ans[ip].cpu_percent = 50
        /\ nodes[ip].cpuPercent = 50 /\ nodes[ip].ramTotal = 4
        /\ nodes[ip].storage # 15

(***************************************************************************)
(* Canonical IPs and snapshots per cycle (checked under SpecSync).         *)
(***************************************************************************)
BareIp(ip) == Len(ip) = 1 /\ ~HasColon(ip)

\* C14: no Node.ip and no NodeSnapshot.nodeIp carries a port suffix, and no
\* two Node rows have the same bare IP, whatever address forms (ip, ip:6000,
\* ip:9001) the gossip records use.
C14_BareIps ==
    /\ \A ip \in DOMAIN nodes : BareIp(ip)
    /\ \A k \in DOMAIN snapshots : BareIp(snapshots[k].nodeIp)
    /\ \A a, b \in DOMAIN nodes : a[1] = b[1] => a = b
    /\ gTx.open => \A ip \in DOMAIN gTx.nodes : BareIp(ip)

\* a committed cycle whose response named one node as ip:9001 and as a bare
\* ip: one row, keyed by the bare ip
C14_Witness ==
    /\ Committed /\ Len(gRaw) = 2
    /\ HasPort9001(PodAddress(gRaw[1])) /\ ~HasColon(PodAddress(gRaw[2]))
    /\ gHist.upserted = {IP1} /\ DOMAIN nodes = {IP1}
    /\ Len(snapshots) >= 1

\* the snapshot rows the current cycle has added for a node
NewSnapsOf(ip) ==
    {k \in (gHist.pre.nSnaps + 1)..Len(snapshots) : snapshots[k].nodeIp = ip}

\* C15: a committed cycle has appended exactly one NodeSnapshot for every
\* node IP it upserted, also when several records of the response resolve to
\* the same canonical IP.
C15_OneSnapshotPerNode ==
    Committed => \A ip \in gHist.upserted : Cardinality(NewSnapsOf(ip)) = 1

(***************************************************************************)
(* Readers of the node list (C16 under Spec, C17 under SpecRead).          *)
(***************************************************************************)
\* the lists fetchNodesFromDb gives over the committed versions of the table
CommittedLists == UNION {fetchNodesFromDb(t) : t \in gHist.tables}

\* C16: a reader never observes a half-applied gossip sync: the list a read
\* has served, the list a reader has computed on a miss, and the list the
\* cache holds are each the Node table as a whole before or after a commit,
\* never the table with some of a transaction's writes.
C16_ReaderSeesCommittedTables ==
    /\ rdHist.n > 0 => rdHist.served \in CommittedLists
    /\ rdPc = "fetched" => rdData \in CommittedLists
    /\ nodesCache.set => nodesCache.data \in CommittedLists

\* a reader computed its list while a transaction had marked the stored
\* nodes inactive and upserted a node: the list shows none of it
C16_Witness ==
    /\ rdPc = "fetched" /\ gTx.open /\ gTx.i > 1
    /\ DOMAIN nodes # {} /\ gTx.nodes # nodes
    /\ rdData \in fetchNodesFromDb(nodes)
    /\ rdData \notin fetchNodesFromDb(gTx.nodes)

Min(a, b) == IF a < b THEN a ELSE b
Max(a, b) == IF a > b THEN a ELSE b

\* a faulty variant: the page starts one page further on and runs to the end
GetNodesShifted(data, page, limit) ==
    LET validPage == Max(1, page)
        validLimit == Min(Max(1, limit), 2000)
    IN [nodes |-> SubSeq(data.nodes, validPage * validLimit + 1, Len(data.nodes)),
        stats |-> data.stats,
        pagination |-> [page |-> validPage, limit |-> validLimit,
                        totalPages |-> 1, totalItems |-> data.stats.totalNodes,
                        hasNextPage |-> FALSE, hasPreviousPage |-> validPage > 1]]

\* a faulty variant: the number of pages is rounded down
GetNodesFloor(data, page, limit) ==
    LET validPage == Max(1, page)
        validLimit == Min(Max(1, limit), 2000)
        skip == (validPage - 1) * validLimit
        total == data.stats.totalNodes
        totalPages == total \div validLimit
    IN [nodes |-> SubSeq(data.nodes, skip + 1, Min(skip + validLimit, Len(data.nodes))),
        stats |-> data.stats,
        pagination |-> [page |-> validPage, limit |-> validLimit,
                        totalPages |-> totalPages, totalItems |-> total,
                        hasNextPage |-> validPage < totalPages,
                        hasPreviousPage |-> validPage > 1]]

\* GET /api/nodes: the page cut out of the full list getNodesList returned
GetNodes(data, page, limit) ==
    LET validPage == Max(1, page)
        validLimit == Min(Max(1, limit), 2000)
        skip == (validPage - 1) * validLimit
        total == data.stats.totalNodes
        totalPages == (total + validLimit - 1) \div validLimit
    IN [nodes |-> SubSeq(data.nodes, skip + 1, Min(skip + validLimit, Len(data.nodes))),
        stats |-> data.stats,
        pagination |-> [page |-> validPage, limit |-> validLimit,
                        totalPages |-> totalPages, totalItems |-> total,
                        hasNextPage |-> validPage < totalPages,
                        hasPreviousPage |-> validPage > 1]]

\* the query parameters tried: page and limit
PageInputs == 0..3
LimitInputs == 0..3

\* every read so far has returned its payload
AllServed == rdPc = "idle" /\ rdHist.n = cycles.r

C18_RefreshFailureKeepsCommit ==
    [][gPc = "CACHE_REFRESH" =>
          /\ UNCHANGED <<nodes, snapshots, networkStats>>
          /\ gPc' \in {"CACHE_REFRESH", "IDLE"}
          /\ gPc' = "IDLE" => (gResp'.success /\ gResp'.status = 200)]_vars

\* a cycle ended in success although the refresh of the node list failed: the
\* rows it committed are in the tables, the node-list cache is empty
C18_Witness ==
    /\ gPc = "IDLE" /\ gResp.success /\ rfNodes.st = "failed"
    /\ ~nodesCache.set
    /\ gHist.upserted # {} /\ ActiveIps(nodes) = gHist.upserted
    /\ Len(networkStats) = gHist.pre.nStats + 1
    /\ Len(snapshots) > gHist.pre.nSnaps

\* the errors the preprocessing loop has collected
RecordErrors ==
    {e \in 1..Len(gErrors) : gErrors[e].phase \in {"validation", "preprocessing"}}

\* C19: a failure confined to one gossip record, a malformed or null record
\* included, excludes only that record: every record of the response ends
\* preprocessed or in the errors of the cycle, and no cycle ends in a failure
\* other than that of the fetch or of the transaction.
C19_RecordFailureIsolated ==
    /\ gPc \in {"COMMITTING", "CACHE_REFRESH"} =>
          Len(gProcessed) + Cardinality(RecordErrors) = Len(gRaw)
    /\ gPc = "FAILED" => gResp.phase \in {"fetch", "transaction"}

\* C20: every per-record error of a gossip-sync cycle (a record dropped for
\* an empty or all-zero IP, a preprocessing failure, a failed upsert) has its
\* entry in the durable error log, written by the cycle, carrying the source,
\* the phase and the node.
C20_RecordErrorsLogged ==
    \A e \in 1..Len(gErrors) :
        \E k \in (gHist.pre.nLog + 1)..Len(errorLog) :
            /\ errorLog[k].source = "cron/gossip-sync"
            /\ errorLog[k].phase = gErrors[e].phase
            /\ errorLog[k].nodeId = gErrors[e].node

(***************************************************************************)
(* The error log as a best-effort sink.                                    *)
(***************************************************************************)
\* a step of the gossip-sync request that called logErrorToDb and whose write
\* of the entry failed
LogWriteFailed == Len(gHist'.logCalls) > Len(gHist.logCalls) /\ errorLog' = errorLog

\* C21: a failed write to the error log is swallowed: the request still ends
\* with the failure response of the phase that was being logged, and no table
\* is changed by the step
C21_FailedLogWriteSwallowed ==
    [][LogWriteFailed =>
          /\ gPc' = "FAILED"
          /\ gResp' = [status |-> 500, success |-> FALSE,
                       phase |-> gHist'.logCalls[Len(gHist'.logCalls)]]
          /\ UNCHANGED <<nodes, snapshots, networkStats, errorLog, geoCache>>]_vars

\* a fetch failure whose log entry could not be written
C21_Witness ==
    /\ gPc = "FAILED" /\ gResp.phase = "fetch" /\ faults = 1
    /\ gHist.logCalls = <<"fetch">> /\ Len(errorLog) = gHist.pre.nLog


(***************************************************************************)
(* Enrichment failures.                                                    *)
(***************************************************************************)
\* the credits lookup of the running (or last) cycle gave the empty mapping
CreditsFailed == gRaw # <<>> /\ gCredits = EmptyMap

\* C22: when the credits lookup fails, the cycle goes on with the empty
\* mapping: every record is processed with credits 0, a failure of the cycle
\* is one of a later phase, and once the cycle has committed every node it
\* upserted is stored with credits 0
C22_CreditsFailureCommits ==
    CreditsFailed =>
        /\ \A i \in 1..Len(gProcessed) : gProcessed[i].credits = 0
        /\ gPc = "FAILED" => /\ gResp.phase \in {"critical", "transaction"}
                             /\ \A i \in 1..Len(gHist.logCalls) :
                                    gHist.logCalls[i] \in {"critical", "transaction"}
        /\ Committed => \A ip \in gHist.upserted : nodes[ip].credits = 0

\* a committed cycle without credits that took a stored 100 credits to 0
C22_Witness ==
    /\ CreditsFailed /\ Committed
    /\ \E ip \in gHist.upserted :
          /\ ip \in DOMAIN gHist.pre.nodes
          /\ gHist.pre.nodes[ip].credits = 100
          /\ nodes[ip].credits = 0


(***************************************************************************)
(* resolveGeoLocation step by step, for requests that overlap.  Nothing    *)
(* keeps a second request (a second POST of the cron route, the assembler  *)
(* route, the debug script) from running while one is in its loop.         *)
(***************************************************************************)
\* IPs one request resolves, one after the other
MaxIps == 2
IpLists == UNION {[1..n -> {IP1, IP2}] : n \in 1..MaxIps}

\* the body ip-api.com answers with
GeoAnswer(ip, status) ==
    IF status = "success"
    THEN [status |-> "success", country |-> GeoTruth(ip).country,
          lat |-> GeoTruth(ip).lat, lon |-> GeoTruth(ip).lon]
    ELSE [status |-> "fail", country |-> "", lat |-> 0, lon |-> 0]
NoAnswerYet == [status |-> "none", country |-> "", lat |-> 0, lon |-> 0]

\* a faulty variant: the lookup is made whether the IP is cached or not
geoCachedNever(cache, ip) == FALSE

\* db.geoCache.findUnique({ where: { ip } }) found a row
geoCached(cache, ip) == ip \in DOMAIN cache

\* a faulty variant: the answer is stored whatever its status
geoStatusAny(answer) == TRUE

\* data.status === "success"
geoStatusOk(answer) == answer.status = "success"

\* db.geoCache.create({ data: geo }) on an IP without a row
geoCreate(cache, ip, answer) ==
    cache @@ (ip :> [country |-> answer.country, lat |-> answer.lat, lon |-> answer.lon])

notGeo == <<nodes, snapshots, networkStats, errorLog, cacheVars, fbVars, gVars,
            rfVars, rdVars, sVars, calc, cycles>>

\* the resolution of r.ip ends (it returns geo, or throws); the loop of the
\* request goes on with its next IP
GeoReturn(r, geo, threw) ==
    LET ret == Append(r.ret, [ip |-> r.ip, geo |-> geo, threw |-> threw,
                              answer |-> r.answer.status])
    IN IF r.todo = <<>>
       THEN [pc |-> "done", todo |-> <<>>, ip |-> NoString, answer |-> NoAnswerYet, ret |-> ret]
       ELSE [pc |-> "find", todo |-> Tail(r.todo), ip |-> Head(r.todo),
             answer |-> NoAnswerYet, ret |-> ret]

\* a request enters its loop over the IPs of its records
GeoRequest(c) ==
    /\ geoRes[c].pc = "idle"
    /\ \E l \in IpLists :
        geoRes' = [geoRes EXCEPT ![c] = [pc |-> "find", todo |-> Tail(l), ip |-> Head(l),
                                         answer |-> NoAnswerYet, ret |-> <<>>]]
    /\ UNCHANGED <<geoCache, faults, notGeo>>

\* findUnique, outside the try: a throw leaves resolveGeoLocation
GeoFind(c) ==
    LET r == geoRes[c] IN
    /\ r.pc = "find"
    /\ \E ok \in BOOLEAN :
        /\ Charge(~ok)
        /\ geoRes' = [geoRes EXCEPT ![c] =
              IF ~ok THEN GeoReturn(r, UnknownGeo, TRUE)
              ELSE IF geoCached(geoCache, r.ip) THEN GeoReturn(r, geoCache[r.ip], FALSE)
              ELSE [r EXCEPT !.pc = "lookup"]]
    /\ UNCHANGED <<geoCache, notGeo>>

\* fetch and res.json(), inside the try: the call is in flight until it answers
GeoLookup(c) ==
    LET r == geoRes[c] IN
    /\ r.pc = "lookup"
    /\ \E o \in {"success", "fail", "throws"} :
        LET answered == IF o = "throws" THEN r
                        ELSE [r EXCEPT !.answer = GeoAnswer(r.ip, o)]
        IN
        /\ Charge(o # "success")
        /\ geoRes' = [geoRes EXCEPT ![c] =
              IF o # "throws" /\ geoStatusOk(answered.answer)
              THEN [answered EXCEPT !.pc = "create"]
              ELSE GeoReturn(answered, UnknownGeo, FALSE)]
    /\ UNCHANGED <<geoCache, notGeo>>

\* create, inside the try: it throws on an IP that has got a row meanwhile
\* (ip is the unique key), and the catch turns any throw into the sentinel
GeoCreate(c) ==
    LET r == geoRes[c] IN
    /\ r.pc = "create"
    /\ \E ok \in BOOLEAN :
        /\ Charge(~ok)
        /\ IF ok /\ r.ip \notin DOMAIN geoCache
           THEN /\ geoCache' = geoCreate(geoCache, r.ip, r.answer)
                /\ geoRes' = [geoRes EXCEPT ![c] =
                      GeoReturn(r, [country |-> r.answer.country, lat |-> r.answer.lat,
                                    lon |-> r.answer.lon], FALSE)]
           ELSE /\ geoCache' = geoCache
                /\ geoRes' = [geoRes EXCEPT ![c] = GeoReturn(r, UnknownGeo, FALSE)]
    /\ UNCHANGED notGeo

NextGeo ==
    \E c \in GeoCallers : GeoRequest(c) \/ GeoFind(c) \/ GeoLookup(c) \/ GeoCreate(c)

SpecGeo == Init /\ [][NextGeo]_vars


\* the resolution request c was in has ended with this step
GeoEnded(c) == Len(geoRes'[c].ret) = Len(geoRes[c].ret) + 1
GeoLastRet(c) == geoRes'[c].ret[Len(geoRes'[c].ret)]

\* C23: resolving an IP that is in the geo cache ends at once, with the cached
\* country, lat and lon, without a lookup and without a write of the cache;
\* and no step ever removes or changes an entry of the cache
C23_CachedIpNoLookup ==
    [][/\ \A ip \in DOMAIN geoCache :
             ip \in DOMAIN geoCache' /\ geoCache'[ip] = geoCache[ip]
       /\ \A c \in GeoCallers :
             (/\ geoRes[c].pc = "find" /\ geoRes'[c] # geoRes[c]
              /\ geoRes[c].ip \in DOMAIN geoCache /\ faults' = faults)
             => /\ GeoEnded(c)
                /\ GeoLastRet(c) = [ip |-> geoRes[c].ip, geo |-> geoCache[geoRes[c].ip],
                                    threw |-> FALSE, answer |-> "none"]
                /\ geoCache' = geoCache]_vars

\* a request resolved the same IP twice: by a lookup, then from the cache
C23_Witness ==
    \E c \in GeoCallers :
        /\ Len(geoRes[c].ret) = 2
        /\ geoRes[c].ret[1].ip = IP1 /\ geoRes[c].ret[1].answer = "success"
        /\ geoRes[c].ret[2] = [ip |-> IP1, geo |-> GeoTruth(IP1), threw |-> FALSE,
                               answer |-> "none"]
        /\ geoCache = (IP1 :> GeoTruth(IP1))

\* C24: a lookup that fails or answers without status success ends the
\* resolution with the sentinel and writes nothing; the cache never holds the
\* sentinel; and a resolution of an IP that is not in the cache issues a lookup
C24_FailedLookupNotCached ==
    [][/\ \A c \in GeoCallers :
             (geoRes[c].pc = "lookup" /\ geoRes'[c] # geoRes[c] /\ faults' # faults)
             => /\ GeoEnded(c)
                /\ GeoLastRet(c).geo = UnknownGeo /\ ~GeoLastRet(c).threw
                /\ geoCache' = geoCache
       /\ \A ip \in DOMAIN geoCache' : geoCache'[ip] # UnknownGeo
       /\ \A c \in GeoCallers :
             (/\ geoRes[c].pc = "find" /\ geoRes'[c] # geoRes[c]
              /\ geoRes[c].ip \notin DOMAIN geoCache /\ faults' = faults)
             => geoRes'[c].pc = "lookup"]_vars

\* a request got the sentinel for an IP and, resolving it again, looked it up anew
C24_Witness ==
    \E c \in GeoCallers :
        /\ Len(geoRes[c].ret) = 2
        /\ geoRes[c].ret[1] = [ip |-> IP1, geo |-> UnknownGeo, threw |-> FALSE,
                               answer |-> "fail"]
        /\ geoRes[c].ret[2] = [ip |-> IP1, geo |-> GeoTruth(IP1), threw |-> FALSE,
                               answer |-> "success"]

\* C25: every resolution the geo-IP service answered with status success has
\* returned the country, lat and lon of its IP, and the cache holds them
\* (no store call failing)
C25_SuccessPersistedAndReturned ==
    faults = 0 =>
        \A c \in GeoCallers : \A i \in 1..Len(geoRes[c].ret) :
            LET e == geoRes[c].ret[i] IN
            e.answer = "success" =>
                /\ e.geo = GeoTruth(e.ip)
                /\ e.ip \in DOMAIN geoCache /\ geoCache[e.ip] = GeoTruth(e.ip)

\* C26: at most one geo-IP lookup is in flight
C26_OneLookupInFlight ==
    Cardinality({c \in GeoCallers : geoRes[c].pc = "lookup"}) <= 1


(***************************************************************************)
(* The two caches on their own: any sequence of get, set and clear.        *)
(***************************************************************************)
\* payloads a caller may set
NodesPayloads == {NoList, [NoList EXCEPT !.stats.totalNodes = 1]}
StatsPayloads == {NoStats, [NoStats EXCEPT !.totalNodes = 1]}

notCache == <<dbVars, fbVars, gVars, rfVars, rdVars, sVars, geoRes, cycles, faults>>

CacheSetNodes ==
    /\ \E d \in NodesPayloads :
        /\ nodesCache' = setCachedNodes(d)
        /\ calc' = [fn |-> <<"setCachedNodes">>, in |-> d, out |-> <<>>,
                    last |-> [calc.last EXCEPT !["nodes"] = CacheHit(d)]]
    /\ UNCHANGED <<statsCache, notCache>>

CacheClearNodes ==
    /\ nodesCache' = clearNodesCache
    /\ calc' = [fn |-> <<"clearNodesCache">>, in |-> <<>>, out |-> <<>>,
                last |-> [calc.last EXCEPT !["nodes"] = CacheMiss]]
    /\ UNCHANGED <<statsCache, notCache>>

CacheGetNodes ==
    /\ calc' = [calc EXCEPT !.fn = <<"getCachedNodes">>, !.in = <<>>,
                            !.out = getCachedNodes(nodesCache)]
    /\ UNCHANGED <<nodesCache, statsCache, notCache>>

CacheSetStats ==
    /\ \E r \in Ranges, d \in StatsPayloads :
        /\ statsCache' = setCachedStats(statsCache, r, d)
        /\ calc' = [fn |-> <<"setCachedStats">>, in |-> r, out |-> <<>>,
                    last |-> [calc.last EXCEPT ![r] = CacheHit(d)]]
    /\ UNCHANGED <<nodesCache, notCache>>

CacheClearStats ==
    /\ statsCache' = clearStatsCache
    /\ calc' = [fn |-> <<"clearStatsCache">>, in |-> <<>>, out |-> <<>>,
                last |-> [x \in CacheSlots |->
                            IF x \in Ranges THEN CacheMiss ELSE calc.last[x]]]
    /\ UNCHANGED <<nodesCache, notCache>>

CacheGetStats ==
    /\ \E r \in Ranges :
        calc' = [calc EXCEPT !.fn = <<"getCachedStats">>, !.in = r,
                             !.out = getCachedStats(statsCache, r)]
    /\ UNCHANGED <<nodesCache, statsCache, notCache>>

NextCache ==
    \/ CacheSetNodes
    \/ CacheClearNodes
    \/ CacheGetNodes
    \/ CacheSetStats
    \/ CacheClearStats
    \/ CacheGetStats

SpecCache == Init /\ [][NextCache]_vars

\* C27: every slot is a register of its own: a get returns what was last set
\* to its slot since that slot's cache was cleared, or a miss; so a set of one
\* range leaves the other ranges and the node list as they were, and a clear
\* empties the slots of its own cache only
C27_SlotsAreRegisters ==
    /\ getCachedNodes(nodesCache) = calc.last["nodes"]
    /\ \A r \in Ranges : getCachedStats(statsCache, r) = calc.last[r]
    /\ calc.fn = <<"getCachedNodes">> => calc.out = calc.last["nodes"]
    /\ calc.fn = <<"getCachedStats">> => calc.out = calc.last[calc.in]

\* a get that hit one range while another range is empty and the node list is set
C27_Witness ==
    /\ calc.fn = <<"getCachedStats">> /\ calc.out.hit
    /\ \E r \in Ranges : ~getCachedStats(statsCache, r).hit
    /\ getCachedNodes(nodesCache).hit
    /\ calc.out = CacheHit([NoStats EXCEPT !.totalNodes = 1])


(***************************************************************************)
(* The history tables.                                                     *)
(***************************************************************************)
IsPrefix(a, b) == Len(a) <= Len(b) /\ SubSeq(b, 1, Len(a)) = a

\* C28: no step of a gossip-sync or stats-updater cycle, failed or not, updates
\* or deletes a NodeSnapshot or NetworkStats row: both tables only grow, and
\* the rows they hold keep their values
C28_HistoryAppendOnly ==
    [][IsPrefix(snapshots, snapshots') /\ IsPrefix(networkStats, networkStats')]_vars

\* a gossip-sync cycle and a stats-updater cycle have both added their
\* snapshots and their NetworkStats row to a store that held some already
C28_Witness ==
    /\ Committed /\ Len(gProcessed) > 0
    /\ cycles.s = 1 /\ sPc = "IDLE" /\ sSnaps # <<>>
    /\ \E t \in SyncedStores :
          /\ t.snapshots # <<>> /\ IsPrefix(t.snapshots, snapshots)
          /\ Len(snapshots) >= Len(t.snapshots) + Len(gProcessed) + Len(sSnaps)
          /\ IsPrefix(t.networkStats, networkStats)
          /\ Len(networkStats) = Len(t.networkStats) + 2


(***************************************************************************)
(* fixPort and extractIp on their own.                                     *)
(***************************************************************************)
\* tokens per address
MaxTokens == 4
AddrTokens == {"10.0.0.1", ":", "9001", "90011", "6000"}

\* the addresses: every string of at most MaxTokens tokens (two tokens that
\* are not colons never stand side by side, they would be one token)
Addresses ==
    UNION { { a \in [1..n -> AddrTokens] :
                \A i \in 1..(n - 1) : a[i] = ":" \/ a[i + 1] = ":" } : n \in 0..MaxTokens }

notCalc == <<dbVars, cacheVars, fbVars, gVars, rfVars, rdVars, sVars, geoRes, cycles, faults>>

InitAddr ==
    /\ InitApart
    /\ \E a \in Addresses : calc = [NoCalc EXCEPT !.in = a, !.out = a]

\* the functions are applied one after the other, to the result so far
CalcFixPort ==
    /\ Len(calc.fn) < 2
    /\ calc' = [calc EXCEPT !.fn = Append(@, "fixPort"), !.out = fixPort(@)]
    /\ UNCHANGED notCalc

CalcExtractIp ==
    /\ Len(calc.fn) < 2
    /\ calc' = [calc EXCEPT !.fn = Append(@, "extractIp"), !.out = extractIp(@)]
    /\ UNCHANGED notCalc

NextAddr == CalcFixPort \/ CalcExtractIp

SpecAddr == InitAddr /\ [][NextAddr]_vars

\* C29: extractIp(fixPort(a)) = extractIp(a) for every address a, and
\* extractIp(extractIp(a)) = extractIp(a)
C29_PortRoundTrip ==
    /\ calc.fn = <<"fixPort", "extractIp">> => calc.out = extractIp(calc.in)
    /\ calc.fn = <<"extractIp", "extractIp">> => calc.out = extractIp(calc.in)

\* an address whose port fixPort has rewritten, stripped to its bare IP
C29_Witness ==
    /\ calc.fn = <<"fixPort", "extractIp">>
    /\ calc.in = <<"10.0.0.1", ":", "90011">>
    /\ calc.out = IP1

(***************************************************************************)
(* ramPercent on its own.                                                  *)
(***************************************************************************)
\* the largest ram_total
MaxRam == 14

InitRam ==
    /\ InitApart
    /\ \E total \in 0..MaxRam : \E used \in 0..total :
          calc = [NoCalc EXCEPT !.in = <<used, total>>]

CalcRamPercent ==
    /\ calc.fn = <<>>
    /\ calc' = [calc EXCEPT !.fn = <<"ramPercent">>,
                            !.out = ramPercent(calc.in[1], calc.in[2])]
    /\ UNCHANGED notCalc

NextRam == CalcRamPercent

SpecRam == InitRam /\ [][NextRam]_vars

\* C30: for 0 <= ramUsed <= ramTotal, ramPercent is 0 when ramTotal is 0 and
\* otherwise 100 * ramUsed / ramTotal (here: its whole part), a value from 0 to 100
C30_RamPercentInRange ==
    calc.fn = <<"ramPercent">> =>
        LET used == calc.in[1]
            total == calc.in[2]
        IN /\ total = 0 => calc.out = 0
           /\ total > 0 => /\ calc.out * total <= 100 * used
                           /\ 100 * used < (calc.out + 1) * total
           /\ 0 <= calc.out /\ calc.out <= 100

\* a node that reports no memory at all
C30_Witness == calc.fn = <<"ramPercent">> /\ calc.in = <<0, 0>> /\ calc.out = 0


(***************************************************************************)
(* Pagination of the cached node list on its own.                          *)
(***************************************************************************)
\* rows of the Node table behind the cached list
MaxListed == 5
ListedIps == <<"10.0.1.1", "10.0.1.2", "10.0.1.3", "10.0.1.4", "10.0.1.5", "10.0.1.6">>

\* a Node table of k rows; two neighbours share their credits
ListedTable(k) ==
    [ip \in {<<ListedIps[i]>> : i \in 1..k} |->
        LET i == CHOOSE j \in 1..k : ip = <<ListedIps[j]>> IN
        GossipCreateRow([pubkey |-> "abc", version |-> "0.8.0", geo |-> UnknownGeo,
                         credits |-> 10 * (i \div 2), storage |-> i, uptime |-> i,
                         status |-> "active"])]

\* the payloads the cache may hold, and the query parameters of a request
ListedPayloads == UNION {fetchNodesFromDb(ListedTable(k)) : k \in 0..MaxListed}
PageQueries == -1..4
LimitQueries == {-1, 0, 1, 2, 3, 2000, 2001}

InitPage ==
    /\ InitApart
    /\ \E d \in ListedPayloads, page \in PageQueries, limit \in LimitQueries :
          calc = [NoCalc EXCEPT !.in = [data |-> d, page |-> page, limit |-> limit]]

\* GET /api/nodes?page=..&limit=..
PageRequest ==
    /\ calc.fn = <<>>
    /\ calc' = [calc EXCEPT
          !.fn = <<"GET">>,
          !.out = [resp |-> GetNodes(calc.in.data, calc.in.page, calc.in.limit),
                   at |-> 0, seen |-> <<>>, done |-> FALSE]]
    /\ UNCHANGED notCalc

\* a client then walks the list with that limit from page 1 on, as long as
\* the answer says hasNextPage
PageWalk ==
    /\ calc.fn # <<>> /\ ~calc.out.done
    /\ LET r == GetNodes(calc.in.data, calc.out.at + 1, calc.in.limit) IN
       calc' = [calc EXCEPT !.fn = <<"GET", "walk">>,
                            !.out.at = @ + 1,
                            !.out.seen = @ \o r.nodes,
                            !.out.done = ~r.pagination.hasNextPage]
    /\ UNCHANGED notCalc

NextPage == PageRequest \/ PageWalk

SpecPage == InitPage /\ [][NextPage]_vars

\* C31: the answer is page max(1, page) of the cached list cut with the limit
\* clamped to 1..2000: the slice from (page-1)*limit to page*limit, at most
\* limit nodes, totalPages the ceiling of totalNodes / limit, hasNextPage
\* exactly when page < totalPages; and the pages from 1 to the last one put
\* end to end are the cached list
C31_PagesPartitionTheList ==
    calc.fn # <<>> =>
        LET list == calc.in.data.nodes
            vp == IF calc.in.page < 1 THEN 1 ELSE calc.in.page
            vl == IF calc.in.limit < 1 THEN 1
                  ELSE IF calc.in.limit > 2000 THEN 2000 ELSE calc.in.limit
            r == calc.out.resp
            tp == r.pagination.totalPages
        IN /\ \A i, j \in 1..Len(list) : i < j => list[i].credits >= list[j].credits
           /\ r.pagination.page = vp /\ r.pagination.limit = vl
           /\ Len(r.nodes) <= vl
           /\ \A i \in 1..Len(r.nodes) : r.nodes[i] = list[(vp - 1) * vl + i]
           /\ \A i \in 1..Len(list) :
                 ((vp - 1) * vl < i /\ i <= vp * vl) => i - (vp - 1) * vl <= Len(r.nodes)
           /\ tp * vl >= Len(list) /\ (tp - 1) * vl < Len(list)
           /\ r.pagination.hasNextPage <=> vp < tp
           /\ calc.out.done => /\ calc.out.seen = list
                               /\ calc.out.at = IF tp = 0 THEN 1 ELSE tp

\* five nodes walked in pages of two, the request having asked for the third
C31_Witness ==
    /\ calc.fn = <<"GET", "walk">> /\ calc.out.done /\ calc.out.at = 3
    /\ Len(calc.in.data.nodes) = 5 /\ calc.in.limit = 2 /\ calc.in.page = 3
    /\ Len(calc.out.resp.nodes) = 1 /\ ~calc.out.resp.pagination.hasNextPage


(***************************************************************************)
(* The rollup rows.                                                        *)
(***************************************************************************)
IsActiveSnap(sn) == sn.status = "active"
IsInactiveSnap(sn) == sn.status = "inactive"

\* C32: the NetworkStats row a stats-updater cycle has inserted agrees with
\* the snapshots the cycle accumulated: as many active and inactive nodes as
\* there are active and inactive snapshots, and the storage and credits of
\* the nodes that answered summed up
C32_RollupMatchesSnapshots ==
    sPc = "CACHE_REFRESH" =>
        LET row == networkStats[Len(networkStats)]
            act == SelectSeq(sSnaps, IsActiveSnap)
        IN /\ row.activeNodes = Len(act)
           /\ row.inactiveNodes = Len(SelectSeq(sSnaps, IsInactiveSnap))
           /\ row.totalStorage = SumOver(act, "storage")
           /\ row.totalCredits = SumOver(act, "credits")


(***************************************************************************)
(* Cycles that find nothing to do.                                         *)
(***************************************************************************)
\* the step that ends a gossip-sync request on an empty response, and the one
\* that ends a stats-updater request without candidates
GossipEndsEmpty == gPc = "FETCHING" /\ gPc' = "IDLE"
StatsEndsEmpty == sPc = "IDLE" /\ cycles'.s > cycles.s /\ sPc' = "IDLE" /\ faults' = faults

\* C33: a gossip-sync cycle whose accepted response is the empty list and a
\* stats-updater cycle without candidates answer 200 with success false and
\* have written nothing: the tables and both caches are as the cycle found
\* them and no refresh has been started
C33_NothingToDoWritesNothing ==
    [][/\ GossipEndsEmpty =>
            /\ gResp' = [status |-> 200, success |-> FALSE, phase |-> "empty"]
            /\ nodes' = gHist.pre.nodes /\ Len(snapshots') = gHist.pre.nSnaps
            /\ Len(networkStats') = gHist.pre.nStats /\ Len(errorLog') = gHist.pre.nLog
            /\ nodesCache' = gHist.pre.nodesCache /\ statsCache' = gHist.pre.statsCache
            /\ UNCHANGED <<dbVars, cacheVars, rfVars>>
       /\ StatsEndsEmpty =>
            /\ sResp' = [status |-> 200, success |-> FALSE, phase |-> "empty"]
            /\ UNCHANGED <<dbVars, cacheVars, rfVars>>]_vars

\* both kinds of cycle have found nothing to do over a store that holds a node
C33_Witness ==
    /\ gPc = "IDLE" /\ gResp.phase = "empty" /\ cycles.g = 1
    /\ sPc = "IDLE" /\ sResp.phase = "empty" /\ cycles.s = 1
    /\ nodes # EmptyMap /\ nodes = gHist.pre.nodes


(***************************************************************************)
(* The batch loop of the batched stats updater, call by call.  Only the    *)
(* scheduling is followed here: what a node's task writes is StatsNode.    *)
(***************************************************************************)
\* candidates of a cycle: more than one batch
MaxCands == 12

notBatch == <<dbVars, cacheVars, fbVars, gVars, rfVars, rdVars, auxVars, sCands,
              sSnaps, sCount, sErrors, sResp, sHist, faults>>

\* a faulty variant: the loop goes on as soon as one task of the batch is done
BatchRaced(tasks, k) == \E j \in DOMAIN tasks : ChunkOf(j) = k /\ tasks[j] = "done"

\* await Promise.all(chunk.map(...)) of batch k has resolved
BatchResolved(tasks, k) == \A j \in DOMAIN tasks : ChunkOf(j) = k => tasks[j] = "done"

\* findMany has given n candidates; they are cut into chunks of BATCH_SIZE
BatchLoopStart ==
    /\ sPc = "IDLE" /\ cycles.s = 0
    /\ \E n \in 1..MaxCands : sTasks' = [i \in 1..n |-> "todo"]
    /\ sVariant' = "batched"
    /\ sPc' = "UPDATING"
    /\ cycles' = [cycles EXCEPT !.s = 1]
    /\ UNCHANGED notBatch

\* iteration k of the loop: chunk.map starts the task of every node of the
\* chunk, each running up to its getStats call
BatchChunkStart ==
    /\ sPc = "UPDATING" /\ sVariant = "batched"
    /\ \E k \in 0..ChunkOf(Len(sTasks)) :
        /\ \A j \in DOMAIN sTasks : ChunkOf(j) = k => sTasks[j] = "todo"
        /\ k > 0 => /\ BatchResolved(sTasks, k - 1)
                    /\ \A j \in DOMAIN sTasks : ChunkOf(j) = k - 1 => sTasks[j] # "todo"
        /\ sTasks' = [j \in DOMAIN sTasks |-> IF ChunkOf(j) = k THEN "flying" ELSE sTasks[j]]
    /\ UNCHANGED <<sPc, sVariant, cycles, notBatch>>

\* the task of one node ends: updated, marked inactive, or failed and caught
BatchNodeDone ==
    /\ sPc = "UPDATING" /\ sVariant = "batched"
    /\ \E i \in DOMAIN sTasks :
        /\ sTasks[i] = "flying"
        /\ sTasks' = [sTasks EXCEPT ![i] = "done"]
        /\ sPc' = IF \A j \in DOMAIN sTasks : j = i \/ sTasks[j] = "done"
                  THEN "SNAPSHOTS" ELSE "UPDATING"
    /\ UNCHANGED <<sVariant, cycles, notBatch>>

NextBatch == BatchLoopStart \/ BatchChunkStart \/ BatchNodeDone

SpecBatch == Init /\ [][NextBatch]_vars

\* C34: at most BATCH_SIZE tasks (and so get-stats calls) are in flight, and
\* while a node of some batch is not finished no task of a later batch has started
C34_BatchesOneAfterTheOther ==
    /\ Cardinality({i \in DOMAIN sTasks : sTasks[i] = "flying"}) <= BATCH_SIZE
    /\ \A i, j \in DOMAIN sTasks :
          (ChunkOf(i) < ChunkOf(j) /\ sTasks[j] # "todo") => sTasks[i] = "done"

\* the two nodes of the second batch are in flight after the ten of the first
C34_Witness ==
    /\ Len(sTasks) = 12
    /\ \A i \in 1..10 : sTasks[i] = "done"
    /\ sTasks[11] = "flying" /\ sTasks[12] = "flying"


(***************************************************************************)
(* The node-list cache at rest.                                            *)
(***************************************************************************)
\* no cycle is running, no refresh and no cache-filling read is in flight
CacheAtRest ==
    /\ gPc \in {"IDLE", "FAILED"}
    /\ rfOwner = "none" /\ ~RefreshInFlight
    /\ rdPc = "idle"

\* C35: at rest the node-list cache is empty or holds the list computed from
\* the current Node table
C35_CacheAtRestIsCurrent ==
    CacheAtRest => (~nodesCache.set \/ nodesCache.data \in fetchNodesFromDb(nodes))


(***************************************************************************)
(* The NetworkStats row of a gossip-sync commit against the Node table.    *)
(***************************************************************************)
\* C36: when a gossip-sync cycle has committed, its NetworkStats row counts
\* the active and the inactive rows of the Node table
C36_RollupCountsNodeRows ==
    gPc = "CACHE_REFRESH" =>
        /\ networkStats[Len(networkStats)].activeNodes = CountStatus(nodes, "active")
        /\ networkStats[Len(networkStats)].inactiveNodes = CountStatus(nodes, "inactive")


(***************************************************************************)
(* The batched stats updater beside a gossip-sync commit.                  *)
(***************************************************************************)
\* a step of the batched stats updater on one of its candidates
BatchedNodeStep == sPc = "UPDATING" /\ sVariant = "batched" /\ sTasks' # sTasks

\* C37: a cycle that polls only the nodes marked active never turns a stored
\* node from inactive to active
C37_BatchedNeverReactivates ==
    [][BatchedNodeStep =>
         \A ip \in DOMAIN nodes :
             nodes[ip].status = "inactive" => nodes'[ip].status = "inactive"]_vars


(***************************************************************************)
(* Readers of the network stats (GET /api/network-stats) beside a refresh  *)
(* of the stats cache, over the store that earlier syncs have left.        *)
(***************************************************************************)
\* what searchParams.get('range') returns: nothing (null or the empty string,
\* here ""), a standard label, another string
RangeQueries == {""} \cup Ranges \cup {"1h", "24H"}

\* searchParams.get('range') || '24h'
RangeParam(q) == IF q = "" THEN "24h" ELSE q

notRange == <<dbVars, nodesCache, fbVars, gVars, sVars, rfNodes, rdPc, rdData, geoRes, cycles>>

\* GET: getNetworkStats(range) up to its await: a hit returns the cached payload
NetStatsRequest ==
    /\ calc.fn \in {<<>>, <<"getNetworkStats", "returned">>, <<"getNetworkStats", "threw">>}
    /\ \E q \in RangeQueries :
        LET range == RangeParam(q)
            got == getCachedStats(statsCache, range)
        IN calc' = [calc EXCEPT !.in = range,
                                !.fn = IF got.hit THEN <<"getNetworkStats", "returned">>
                                       ELSE <<"getNetworkStats", "miss">>,
                                !.out = IF got.hit THEN got.data ELSE <<>>]
    /\ UNCHANGED <<statsCache, rfStats, rfOwner, rdHist, faults, notRange>>

\* the store answers fetchNetworkStatsFromDb(range), or a query throws (500)
NetStatsDbRead ==
    /\ calc.fn = <<"getNetworkStats", "miss">>
    /\ \/ /\ calc' = [calc EXCEPT !.fn = <<"getNetworkStats", "fetched">>,
                                   !.out = fetchNetworkStatsFromDb(calc.in, nodes, snapshots)]
          /\ UNCHANGED faults
       \/ /\ Charge(TRUE)
          /\ calc' = [calc EXCEPT !.fn = <<"getNetworkStats", "threw">>]
    /\ UNCHANGED <<statsCache, rfStats, rfOwner, rdHist, notRange>>

\* setCachedStats(range, data); return data
NetStatsSet ==
    /\ calc.fn = <<"getNetworkStats", "fetched">>
    /\ statsCache' = setCachedStats(statsCache, calc.in, calc.out)
    /\ calc' = [calc EXCEPT !.fn = <<"getNetworkStats", "returned">>]
    /\ UNCHANGED <<rfStats, rfOwner, rdHist, faults, notRange>>

\* refreshNetworkStatsCache is called: the cache is cleared, the four ranges are queried
RangeRefreshStart ==
    /\ RefreshBegin("cron", FALSE)
    /\ UNCHANGED <<calc, faults, notRange>>

\* refreshNetworkStatsCache returns
RangeRefreshDone ==
    /\ rfOwner = "cron" /\ StatsRefreshSettled
    /\ rfOwner' = "none"
    /\ UNCHANGED <<statsCache, rfStats, rdHist, calc, faults, notRange>>

NextRange ==
    \/ NetStatsRequest
    \/ NetStatsDbRead
    \/ NetStatsSet
    \/ RangeRefreshStart
    \/ \E r \in Ranges : RfStatsRange(r)
    \/ RangeRefreshDone

InitRange == InitSynced /\ InitQuiet /\ faults = 0

SpecRange == InitRange /\ [][NextRange]_vars

\* C38: the stats cache holds payloads under the four range labels only, and
\* a request with another label is answered with the 24h window
C38_OnlyStandardSlots ==
    /\ \A r \in DOMAIN statsCache : statsCache[r].set => r \in Ranges
    /\ (calc.fn = <<"getNetworkStats", "returned">> /\ calc.in \notin Ranges)
           => calc.out.range = "24h"


====
